---- MODULE Spec2Model ----
(***************************************************************************)
(* A model of the Ajo (rotating savings) contract: contracts/ajo/src.      *)
(* The state is the contract's storage (admin, pause flag, group id        *)
(* counter, groups, contribution flags, payout flags), the ledger clock    *)
(* and the events the contract emits.  Every public entry point is one     *)
(* action.  `last` records the last call (operation, arguments, result)    *)
(* and `pre` the storage that call started from, so that what a call       *)
(* returned and what it changed can be stated of a single state.  A call   *)
(* that returns an error changes `last` and `pre` only.                    *)
(***************************************************************************)
EXTENDS Integers, Sequences, FiniteSets, Bags, TLC

(***************************************************************************)
(* Bounds of the model.                                                    *)
(***************************************************************************)
\* Largest ledger timestamp Tick reaches.
MaxNow == 1

\* The callers: three ordinary addresses and the administrator.
Address == {"a1", "a2", "a3"}
AdminAddress == "admin"
NoAddress == "none"
\* The contract's own address and the holders of the token ledger.
ContractAddress == "contract"
Holder == Address \cup { ContractAddress }
\* The token the groups are funded in.
TokenAddress == "token"

(***************************************************************************)
(* security.rs, mod limits.  An i128 amount given to create_group is       *)
(* written as a pair <<hi, lo>> that stands for hi * Limb + lo with        *)
(* 0 <= lo < Limb, so that MAX_CONTRIBUTION (10^16) can be written.        *)
(***************************************************************************)
Limb == 10000 * 10000
MAX_MEMBERS == 100
MIN_MEMBERS == 2
MAX_CONTRIBUTION == <<Limb, 0>>
MIN_CONTRIBUTION == <<0, 100000>>
MAX_CYCLE_DURATION == 31536000
MIN_CYCLE_DURATION == 3600

I128Zero == <<0, 0>>
I128Lt(a, b) == a[1] < b[1] \/ (a[1] = b[1] /\ a[2] < b[2])
\* The integer a pair stands for (used for amounts that passed validation).
I128Value(a) == a[1] * Limb + a[2]

(***************************************************************************)
(* Inputs the callers choose from.                                         *)
(***************************************************************************)
\* 0, -1000, 100_000_000 (the amount the tests use).
AmountInputs == { <<0, 0>>, <<-1, Limb - 1000>>, <<1, 0>> }
DurationInputs == { 0, 3600 }
MaxMembersInputs == { 1, 2, 3, 101 }
\* The group ids callers name; the id counter hands out no id beyond them.
GroupIdInputs == { 1 }
\* The claim ids callers name; the claim id counter hands out no id beyond them.
ClaimIdInputs == { 1, 2 }
\* The amounts of the claims filed and of the deposits into the pool.
ClaimAmountInputs == { 1, 2 }
DepositInputs == { 2 }
\* The pool balances and the token balances of the contract that are explored.
PoolBalanceRange == 0..2
ContractBalanceRange == 0..2
\* The token balances of the contract at which more arrives, in the
\* specification of the refunds.
RefundBalanceRange == { 0, Limb }
\* The amounts that arrive at the contract's address from outside.
MintInputs == { 2 }

VARIABLES
    admin,            \* storage: the admin address, or NoAddress
    paused,           \* storage: the pause flag
    next_group_id,    \* storage: the group id counter
    groups,           \* storage: group id -> Group
    group_state,      \* storage: group id -> GroupState (Group.state)
    contributions,    \* storage: the (group, cycle, member) flags that are set
    payout_received,  \* storage: the (group, member) payout flags that are set
    contribution_events, \* bag of the (group, cycle, member) of the contribution events
    payout_events,    \* group id -> sequence of the payout events
    claims,           \* storage: claim id -> InsuranceClaim
    pools,            \* storage: token -> InsurancePool
    next_claim_id,    \* storage: the claim id counter
    token_balance,    \* the token ledger: holder -> balance
    refund_requests,  \* storage: group id -> RefundRequest
    refund_votes,     \* storage: the (group, voter, in_favor) votes cast
    penalty_records,  \* storage: (group, member) -> MemberPenaltyRecord
    now,              \* the ledger timestamp
    last,             \* the last call: operation, arguments, result
    pre               \* storage and clock at the start of the last call

vars == << admin, paused, next_group_id, groups, group_state, contributions,
           payout_received, contribution_events, payout_events, claims, pools,
           next_claim_id, token_balance, refund_requests, refund_votes, penalty_records,
           now, last, pre >>

\* The record of a call.
Call(op, who, gid, args, res, ret) ==
    [op |-> op, who |-> who, gid |-> gid, args |-> args, res |-> res, ret |-> ret]

\* Storage, events and clock as they are now.
Snapshot ==
    [admin |-> admin, paused |-> paused, next_group_id |-> next_group_id,
     groups |-> groups, group_state |-> group_state, contributions |-> contributions,
     payout_received |-> payout_received, contribution_events |-> contribution_events,
     payout_events |-> payout_events, claims |-> claims, pools |-> pools,
     next_claim_id |-> next_claim_id, token_balance |-> token_balance,
     refund_requests |-> refund_requests, refund_votes |-> refund_votes,
     penalty_records |-> penalty_records, now |-> now]

GroupIds == DOMAIN groups

(***************************************************************************)
(* Pure helpers (security.rs).                                             *)
(***************************************************************************)
validate_group_params_members_first(contribution_amount, cycle_duration, max_members) ==
    IF contribution_amount = I128Zero THEN "ContributionAmountZero"
    ELSE IF I128Lt(contribution_amount, I128Zero) THEN "ContributionAmountNegative"
    ELSE IF I128Lt(contribution_amount, MIN_CONTRIBUTION) THEN "ContributionAmountZero"
    ELSE IF I128Lt(MAX_CONTRIBUTION, contribution_amount) THEN "ContributionAmountNegative"
    ELSE IF max_members < MIN_MEMBERS THEN "MaxMembersBelowMinimum"
    ELSE IF max_members > MAX_MEMBERS THEN "MaxMembersAboveLimit"
    ELSE IF cycle_duration = 0 THEN "CycleDurationZero"
    ELSE IF cycle_duration < MIN_CYCLE_DURATION THEN "CycleDurationZero"
    ELSE IF cycle_duration > MAX_CYCLE_DURATION THEN "CycleDurationZero"
    ELSE "Ok"

validate_group_params(contribution_amount, cycle_duration, max_members) ==
    IF contribution_amount = I128Zero THEN "ContributionAmountZero"
    ELSE IF I128Lt(contribution_amount, I128Zero) THEN "ContributionAmountNegative"
    ELSE IF I128Lt(contribution_amount, MIN_CONTRIBUTION) THEN "ContributionAmountZero"
    ELSE IF I128Lt(MAX_CONTRIBUTION, contribution_amount) THEN "ContributionAmountNegative"
    ELSE IF cycle_duration = 0 THEN "CycleDurationZero"
    ELSE IF cycle_duration < MIN_CYCLE_DURATION THEN "CycleDurationZero"
    ELSE IF cycle_duration > MAX_CYCLE_DURATION THEN "CycleDurationZero"
    ELSE IF max_members < MIN_MEMBERS THEN "MaxMembersBelowMinimum"
    ELSE IF max_members > MAX_MEMBERS THEN "MaxMembersAboveLimit"
    ELSE "Ok"

is_member_anyone(members, address) == TRUE

is_member(members, address) ==
    \E i \in 1..Len(members) : members[i] = address

\* storage::has_contributed: the flag of (group, cycle, member) is set.
has_contributed(group_id, cycle, member) ==
    <<group_id, cycle, member>> \in contributions

all_members_contributed_some(group) ==
    \E i \in 1..Len(group.members) :
        has_contributed(group.id, group.current_cycle, group.members[i])

all_members_contributed_first_only(group) ==
    has_contributed(group.id, group.current_cycle, group.members[1])

all_members_contributed(group) ==
    \A i \in 1..Len(group.members) :
        has_contributed(group.id, group.current_cycle, group.members[i])

\* pausable::ensure_not_paused succeeds.
ensure_not_paused == ~paused

(***************************************************************************)
(* Initial state: a freshly deployed contract.                             *)
(***************************************************************************)
Init ==
    /\ admin = NoAddress
    /\ paused = FALSE
    /\ next_group_id = 1
    /\ groups = << >>
    /\ group_state = << >>
    /\ contributions = {}
    /\ payout_received = {}
    /\ contribution_events = EmptyBag
    /\ payout_events = << >>
    /\ claims = << >>
    /\ pools = << >>
    /\ next_claim_id = 1
    /\ token_balance = [h \in Holder |-> 0]
    /\ refund_requests = << >>
    /\ refund_votes = {}
    /\ penalty_records = << >>
    /\ now = 0
    /\ last = Call("deploy", NoAddress, 0, << >>, "Ok", 0)
    /\ pre = [admin |-> NoAddress, paused |-> FALSE, next_group_id |-> 1,
              groups |-> << >>, group_state |-> << >>, contributions |-> {},
              payout_received |-> {}, contribution_events |-> EmptyBag,
              payout_events |-> << >>, claims |-> << >>, pools |-> << >>,
              next_claim_id |-> 1, token_balance |-> [h \in Holder |-> 0],
              refund_requests |-> << >>, refund_votes |-> {},
              penalty_records |-> << >>, now |-> 0]

\* A call returns: `last` and `pre` are written.
Return(op, who, gid, args, res, ret) ==
    /\ last' = Call(op, who, gid, args, res, ret)
    /\ pre' = Snapshot

\* A call returns an error: nothing was stored.
Fail(op, who, gid, args, err) ==
    /\ Return(op, who, gid, args, err, 0)
    /\ UNCHANGED << admin, paused, next_group_id, groups, group_state, contributions,
                    payout_received, contribution_events, payout_events, now,
                    claims, pools, next_claim_id, token_balance,
                    refund_requests, refund_votes, penalty_records >>

(***************************************************************************)
(* contract.rs: initialize, pause, unpause.                                *)
(***************************************************************************)
initialize_overwrites(new_admin) ==
    /\ admin' = new_admin
    /\ Return("initialize", new_admin, 0, << >>, "Ok", 0)
    /\ UNCHANGED << paused, next_group_id, groups, group_state, contributions,
                    payout_received, contribution_events, payout_events, now,
                    claims, pools, next_claim_id, token_balance,
                    refund_requests, refund_votes, penalty_records >>

initialize(new_admin) ==
    IF admin # NoAddress
    THEN Fail("initialize", new_admin, 0, << >>, "AlreadyInitialized")
    ELSE /\ admin' = new_admin
         /\ Return("initialize", new_admin, 0, << >>, "Ok", 0)
         /\ UNCHANGED << paused, next_group_id, groups, group_state, contributions,
                         payout_received, contribution_events, payout_events, now,
                    claims, pools, next_claim_id, token_balance,
                    refund_requests, refund_votes, penalty_records >>

pause(caller) ==
    IF admin = NoAddress \/ caller # admin
    THEN Fail("pause", caller, 0, << >>, "UnauthorizedPause")
    ELSE /\ paused' = TRUE
         /\ Return("pause", caller, 0, << >>, "Ok", 0)
         /\ UNCHANGED << admin, next_group_id, groups, group_state, contributions,
                         payout_received, contribution_events, payout_events, now,
                    claims, pools, next_claim_id, token_balance,
                    refund_requests, refund_votes, penalty_records >>

unpause(caller) ==
    IF admin = NoAddress \/ caller # admin
    THEN Fail("unpause", caller, 0, << >>, "UnauthorizedUnpause")
    ELSE /\ paused' = FALSE
         /\ Return("unpause", caller, 0, << >>, "Ok", 0)
         /\ UNCHANGED << admin, next_group_id, groups, group_state, contributions,
                         payout_received, contribution_events, payout_events, now,
                    claims, pools, next_claim_id, token_balance,
                    refund_requests, refund_votes, penalty_records >>

(***************************************************************************)
(* contract.rs: create_group.                                              *)
(***************************************************************************)
new_group_cycle_zero(group_id, creator, amount, cycle_duration, max_members, timestamp) ==
    [ id |-> group_id,
      creator |-> creator,
      contribution_amount |-> amount,
      cycle_duration |-> cycle_duration,
      max_members |-> max_members,
      members |-> << creator >>,
      current_cycle |-> 1,
      payout_index |-> 0,
      created_at |-> timestamp,
      cycle_start_time |-> 0,
      is_complete |-> FALSE ]

\* The Group value create_group builds.
new_group(group_id, creator, amount, cycle_duration, max_members, timestamp) ==
    [ id |-> group_id,
      creator |-> creator,
      contribution_amount |-> amount,
      cycle_duration |-> cycle_duration,
      max_members |-> max_members,
      members |-> << creator >>,
      current_cycle |-> 1,
      payout_index |-> 0,
      created_at |-> timestamp,
      cycle_start_time |-> timestamp,
      is_complete |-> FALSE ]

\* The checks of create_group, in the order the code makes them.
create_group_result(contribution_amount, cycle_duration, max_members) ==
    LET valid == validate_group_params(contribution_amount, cycle_duration, max_members)
    IN  IF valid # "Ok" THEN valid
        ELSE IF ~ensure_not_paused THEN "ContractPaused"
        ELSE "Ok"

create_group(creator, contribution_amount, cycle_duration, max_members) ==
    LET args == << contribution_amount, cycle_duration, max_members >>
        res == create_group_result(contribution_amount, cycle_duration, max_members)
        group_id == next_group_id
    IN  IF res # "Ok"
        THEN Fail("create_group", creator, 0, args, res)
        ELSE    /\ next_group_id' = next_group_id + 1
                /\ groups' = groups @@ (group_id :>
                       new_group(group_id, creator, I128Value(contribution_amount),
                                 cycle_duration, max_members, now))
                /\ group_state' = group_state @@ (group_id :> "Active")
                /\ payout_events' = payout_events @@ (group_id :> << >>)
                /\ Return("create_group", creator, group_id, args, "Ok", group_id)
                /\ UNCHANGED << admin, paused, contributions, payout_received,
                                contribution_events, now,
                    claims, pools, next_claim_id, token_balance,
                    refund_requests, refund_votes, penalty_records >>

(***************************************************************************)
(* contract.rs: join_group.                                                *)
(***************************************************************************)
join_group_result_full_first(member, group_id) ==
    IF ~ensure_not_paused THEN "ContractPaused"
    ELSE IF group_id \notin GroupIds THEN "GroupNotFound"
    ELSE LET group == groups[group_id]
         IN  IF group.is_complete THEN "GroupComplete"
             ELSE IF Len(group.members) >= group.max_members THEN "MaxMembersExceeded"
             ELSE IF is_member(group.members, member) THEN "AlreadyMember"
             ELSE "Ok"

join_group_result_no_member_check(member, group_id) ==
    IF ~ensure_not_paused THEN "ContractPaused"
    ELSE IF group_id \notin GroupIds THEN "GroupNotFound"
    ELSE LET group == groups[group_id]
         IN  IF group.is_complete THEN "GroupComplete"
             ELSE IF Len(group.members) >= group.max_members THEN "MaxMembersExceeded"
             ELSE "Ok"

\* The checks of join_group, in the order the code makes them.
join_group_result(member, group_id) ==
    IF ~ensure_not_paused THEN "ContractPaused"
    ELSE IF group_id \notin GroupIds THEN "GroupNotFound"
    ELSE LET group == groups[group_id]
             member_count == Len(group.members)
             max_members == group.max_members
         IN  IF group.is_complete THEN "GroupComplete"
             ELSE IF is_member(group.members, member) THEN "AlreadyMember"
             ELSE IF member_count >= max_members THEN "MaxMembersExceeded"
             ELSE "Ok"

join_group(member, group_id) ==
    LET res == join_group_result(member, group_id)
    IN  IF res # "Ok"
        THEN Fail("join_group", member, group_id, << >>, res)
        ELSE /\ groups' = [groups EXCEPT ![group_id].members = Append(@, member)]
             /\ Return("join_group", member, group_id, << >>, "Ok", 0)
             /\ UNCHANGED << admin, paused, next_group_id, group_state, contributions,
                             payout_received, contribution_events, payout_events, now,
                    claims, pools, next_claim_id, token_balance,
                    refund_requests, refund_votes, penalty_records >>

(***************************************************************************)
(* contract.rs: contribute.                                                *)
(***************************************************************************)
contribute_result_no_contributed_check(member, group_id) ==
    IF ~ensure_not_paused THEN "ContractPaused"
    ELSE IF group_id \notin GroupIds THEN "GroupNotFound"
    ELSE LET group == groups[group_id]
         IN  IF group.is_complete THEN "GroupComplete"
             ELSE IF ~is_member(group.members, member) THEN "NotMember"
             ELSE "Ok"

contribute_result_member_first(member, group_id) ==
    IF ~ensure_not_paused THEN "ContractPaused"
    ELSE IF group_id \notin GroupIds THEN "GroupNotFound"
    ELSE LET group == groups[group_id]
         IN  IF ~is_member(group.members, member) THEN "NotMember"
             ELSE IF group.is_complete THEN "GroupComplete"
             ELSE IF has_contributed(group.id, group.current_cycle, member)
             THEN "AlreadyContributed"
             ELSE "Ok"

\* The checks of contribute, in the order the code makes them.
contribute_result(member, group_id) ==
    IF ~ensure_not_paused THEN "ContractPaused"
    ELSE IF group_id \notin GroupIds THEN "GroupNotFound"
    ELSE LET group == groups[group_id]
         IN  IF group.is_complete THEN "GroupComplete"
             ELSE IF ~is_member(group.members, member) THEN "NotMember"
             ELSE IF has_contributed(group.id, group.current_cycle, member)
             THEN "AlreadyContributed"
             ELSE "Ok"

\* contribute with a contribution flag whose key leaves the group out.
contribute_shared_key(member, group_id) ==
    LET res == contribute_result(member, group_id)
    IN  IF res # "Ok"
        THEN Fail("contribute", member, group_id, << >>, res)
        ELSE LET group == groups[group_id]
                 record == << 1, group.current_cycle, member >>
             IN  /\ contributions' = contributions \cup { record }
                 /\ contribution_events' = contribution_events (+) SetToBag({ record })
                 /\ Return("contribute", member, group_id, << >>, "Ok", 0)
                 /\ UNCHANGED << admin, paused, next_group_id, groups, group_state,
                                 payout_received, payout_events, now,
                                 claims, pools, next_claim_id, token_balance,
                                 refund_requests, refund_votes, penalty_records >>

contribute(member, group_id) ==
    LET res == contribute_result(member, group_id)
    IN  IF res # "Ok"
        THEN Fail("contribute", member, group_id, << >>, res)
        ELSE LET group == groups[group_id]
                 record == << group.id, group.current_cycle, member >>
             IN  /\ contributions' = contributions \cup { record }
                 /\ contribution_events' = contribution_events (+) SetToBag({ record })
                 /\ Return("contribute", member, group_id, << >>, "Ok", 0)
                 /\ UNCHANGED << admin, paused, next_group_id, groups, group_state,
                                 payout_received, payout_events, now,
                    claims, pools, next_claim_id, token_balance,
                    refund_requests, refund_votes, penalty_records >>

(***************************************************************************)
(* contract.rs: execute_payout.                                            *)
(***************************************************************************)
payout_recipient_always_creator(group) == group.creator

\* members.get(payout_index): the members are numbered from 0 in the code.
payout_recipient(group) == group.members[group.payout_index + 1]

payout_amount_by_max_members(group) == group.contribution_amount * group.max_members

payout_amount(group) == group.contribution_amount * Len(group.members)

advance_group_by_max_members(group, timestamp) ==
    IF group.payout_index + 1 >= group.max_members
    THEN [group EXCEPT !.payout_index = @ + 1, !.is_complete = TRUE]
    ELSE [group EXCEPT !.payout_index = @ + 1,
                       !.current_cycle = @ + 1,
                       !.cycle_start_time = timestamp]

advance_group_cycle_on_complete(group, timestamp) ==
    IF group.payout_index + 1 >= Len(group.members)
    THEN [group EXCEPT !.payout_index = @ + 1, !.current_cycle = @ + 1,
                       !.is_complete = TRUE]
    ELSE [group EXCEPT !.payout_index = @ + 1,
                       !.current_cycle = @ + 1,
                       !.cycle_start_time = timestamp]

advance_group_keeps_start_time(group, timestamp) ==
    IF group.payout_index + 1 >= Len(group.members)
    THEN [group EXCEPT !.payout_index = @ + 1, !.is_complete = TRUE]
    ELSE [group EXCEPT !.payout_index = @ + 1, !.current_cycle = @ + 1]

advance_group_never_complete(group, timestamp) ==
    [group EXCEPT !.payout_index = @ + 1,
                  !.current_cycle = @ + 1,
                  !.cycle_start_time = timestamp]

\* The group execute_payout stores: the payout index advanced, and either the
\* group marked complete or the next cycle started.
advance_group(group, timestamp) ==
    IF group.payout_index + 1 >= Len(group.members)
    THEN [group EXCEPT !.payout_index = @ + 1, !.is_complete = TRUE]
    ELSE [group EXCEPT !.payout_index = @ + 1,
                       !.current_cycle = @ + 1,
                       !.cycle_start_time = timestamp]

execute_payout_result_no_complete_check(group_id) ==
    IF ~ensure_not_paused THEN "ContractPaused"
    ELSE IF group_id \notin GroupIds THEN "GroupNotFound"
    ELSE LET group == groups[group_id]
         IN  IF ~all_members_contributed(group) THEN "IncompleteContributions"
             ELSE IF ~(group.payout_index < Len(group.members)) THEN "NoMembers"
             ELSE "Ok"

\* The checks of execute_payout, in the order the code makes them.
execute_payout_result(group_id) ==
    IF ~ensure_not_paused THEN "ContractPaused"
    ELSE IF group_id \notin GroupIds THEN "GroupNotFound"
    ELSE LET group == groups[group_id]
         IN  IF group.is_complete THEN "GroupComplete"
             ELSE IF ~all_members_contributed(group) THEN "IncompleteContributions"
             ELSE IF ~(group.payout_index < Len(group.members)) THEN "NoMembers"
             ELSE "Ok"

execute_payout(group_id) ==
    LET res == execute_payout_result(group_id)
    IN  IF res # "Ok"
        THEN Fail("execute_payout", NoAddress, group_id, << >>, res)
        ELSE LET group == groups[group_id]
                 recipient == payout_recipient(group)
             IN  /\ payout_received' = payout_received \cup { << group.id, recipient >> }
                 /\ payout_events' = [payout_events EXCEPT ![group.id] =
                        Append(@, [recipient |-> recipient,
                                   cycle |-> group.current_cycle,
                                   amount |-> payout_amount(group)])]
                 /\ groups' = [groups EXCEPT ![group_id] = advance_group(group, now)]
                 /\ Return("execute_payout", NoAddress, group_id, << >>, "Ok", 0)
                 /\ UNCHANGED << admin, paused, next_group_id, group_state,
                                 contributions, contribution_events, now,
                    claims, pools, next_claim_id, token_balance,
                    refund_requests, refund_votes, penalty_records >>

(***************************************************************************)
(* token.rs and the token contract: a transfer moves `amount` from one     *)
(* holder to another, and traps (the whole invocation is aborted and       *)
(* nothing it wrote is kept) when the amount is negative or the sender     *)
(* holds less.                                                             *)
(***************************************************************************)
transfer_allowed(from, amount) == amount >= 0 /\ token_balance[from] >= amount

transfer_token(balances, from, to, amount) ==
    IF from = to THEN balances
    ELSE [balances EXCEPT ![from] = @ - amount, ![to] = @ + amount]

check_contract_balance(amount) ==
    IF token_balance[ContractAddress] < amount THEN "InsufficientContractBalance"
    ELSE "Ok"

\* Tokens arrive at the contract's address from outside (a mint or a transfer
\* by any holder of the token).
token_mint(amount) ==
    /\ token_balance' = [token_balance EXCEPT ![ContractAddress] = @ + amount]
    /\ Return("token_mint", NoAddress, 0, << amount >>, "Ok", 0)
    /\ UNCHANGED << admin, paused, next_group_id, groups, group_state, contributions,
                    payout_received, contribution_events, payout_events, claims,
                    pools, next_claim_id, now,
                    refund_requests, refund_votes, penalty_records >>

(***************************************************************************)
(* Creator cancellation (specification, section 4.5): allowed to the       *)
(* creator of an Active group before the first payout; every contribution  *)
(* recorded for the current cycle is refunded to its payer and the group   *)
(* becomes Cancelled.                                                      *)
(***************************************************************************)
\* The members with a contribution recorded for the group's current cycle.
contributors(group) ==
    { m \in Address : /\ is_member(group.members, m)
                      /\ has_contributed(group.id, group.current_cycle, m) }

refund_total(group) == group.contribution_amount * Cardinality(contributors(group))

cancel_group_result_after_payout(creator, group_id) ==
    IF ~ensure_not_paused THEN "ContractPaused"
    ELSE IF group_id \notin GroupIds THEN "GroupNotFound"
    ELSE LET group == groups[group_id]
         IN  IF creator # group.creator THEN "Unauthorized"
             ELSE IF group_state[group_id] # "Active" \/ group.is_complete
             THEN "CancellationNotAllowed"
             ELSE check_contract_balance(refund_total(group))

cancel_group_result(creator, group_id) ==
    IF ~ensure_not_paused THEN "ContractPaused"
    ELSE IF group_id \notin GroupIds THEN "GroupNotFound"
    ELSE LET group == groups[group_id]
         IN  IF creator # group.creator THEN "Unauthorized"
             ELSE IF group_state[group_id] # "Active" \/ group.is_complete
                     \/ group.payout_index # 0
             THEN "CancellationNotAllowed"
             ELSE check_contract_balance(refund_total(group))

\* The token ledger after every contributor of the group got its refund.
refund_contributors(group) ==
    [h \in Holder |->
        IF h = ContractAddress THEN token_balance[h] - refund_total(group)
        ELSE IF h \in contributors(group)
        THEN token_balance[h] + group.contribution_amount
        ELSE token_balance[h]]

cancel_group(creator, group_id) ==
    LET res == cancel_group_result(creator, group_id)
    IN  IF res # "Ok"
        THEN Fail("cancel_group", creator, group_id, << >>, res)
        ELSE /\ group_state' = [group_state EXCEPT ![group_id] = "Cancelled"]
             /\ token_balance' = refund_contributors(groups[group_id])
             /\ Return("cancel_group", creator, group_id, << >>, "Ok", 0)
             /\ UNCHANGED << admin, paused, next_group_id, groups, contributions,
                             payout_received, contribution_events, payout_events, now,
                             claims, pools, next_claim_id,
                             refund_requests, refund_votes, penalty_records >>

(***************************************************************************)
(* Member-voted refund (specification, sections 3 and 4.5; types.rs        *)
(* declares RefundRequest, RefundVote and the two constants).  A member    *)
(* of an Active group opens the group's request; each member votes at most *)
(* once, for or against, until the deadline; after the deadline, or once   *)
(* every member has voted, the request is resolved: approved, it refunds   *)
(* the contributions recorded for the current cycle and the group becomes  *)
(* Cancelled; not approved, the group stays as it is.                      *)
(***************************************************************************)
VOTING_PERIOD == 604800
REFUND_APPROVAL_THRESHOLD_half == 51 - 1
REFUND_APPROVAL_THRESHOLD == 51

\* The RefundRequest value request_refund builds.
new_refund_request(group_id, requester, timestamp) ==
    [ group_id |-> group_id,
      requester |-> requester,
      created_at |-> timestamp,
      voting_deadline |-> timestamp + VOTING_PERIOD,
      votes_for |-> 0,
      votes_against |-> 0,
      executed |-> FALSE,
      approved |-> FALSE ]

\* A RefundVote of (group, voter) is stored.
has_voted(group_id, voter) ==
    \E in_favor \in BOOLEAN : << group_id, voter, in_favor >> \in refund_votes

\* The group takes no further mutation: it is Cancelled or Complete.
group_closed(group_id) ==
    group_state[group_id] # "Active" \/ groups[group_id].is_complete

request_refund_result(requester, group_id) ==
    IF ~ensure_not_paused THEN "ContractPaused"
    ELSE IF group_id \notin GroupIds THEN "GroupNotFound"
    ELSE IF group_closed(group_id) THEN "GroupComplete"
    ELSE IF ~is_member(groups[group_id].members, requester) THEN "NotMember"
    ELSE IF group_id \in DOMAIN refund_requests THEN "RefundRequestExists"
    ELSE "Ok"

request_refund(requester, group_id) ==
    LET res == request_refund_result(requester, group_id)
    IN  IF res # "Ok"
        THEN Fail("request_refund", requester, group_id, << >>, res)
        ELSE /\ refund_requests' = refund_requests @@
                    (group_id :> new_refund_request(group_id, requester, now))
             /\ Return("request_refund", requester, group_id, << >>, "Ok", 0)
             /\ UNCHANGED << admin, paused, next_group_id, groups, group_state,
                             contributions, payout_received, contribution_events,
                             payout_events, claims, pools, next_claim_id,
                             token_balance, refund_votes, now, penalty_records >>

vote_refund_result(voter, group_id) ==
    IF ~ensure_not_paused THEN "ContractPaused"
    ELSE IF group_id \notin GroupIds THEN "GroupNotFound"
    ELSE IF group_closed(group_id) THEN "GroupComplete"
    ELSE IF group_id \notin DOMAIN refund_requests THEN "RefundRequestNotFound"
    ELSE IF refund_requests[group_id].executed THEN "RefundAlreadyExecuted"
    ELSE IF ~is_member(groups[group_id].members, voter) THEN "NotMember"
    ELSE IF has_voted(group_id, voter) THEN "AlreadyVoted"
    ELSE IF now > refund_requests[group_id].voting_deadline THEN "VotingPeriodEnded"
    ELSE "Ok"

vote_refund(voter, group_id, in_favor) ==
    LET res == vote_refund_result(voter, group_id)
    IN  IF res # "Ok"
        THEN Fail("vote_refund", voter, group_id, << in_favor >>, res)
        ELSE /\ refund_votes' = refund_votes \cup { << group_id, voter, in_favor >> }
             /\ refund_requests' =
                    IF in_favor
                    THEN [refund_requests EXCEPT ![group_id].votes_for = @ + 1]
                    ELSE [refund_requests EXCEPT ![group_id].votes_against = @ + 1]
             /\ Return("vote_refund", voter, group_id, << in_favor >>, "Ok", 0)
             /\ UNCHANGED << admin, paused, next_group_id, groups, group_state,
                             contributions, payout_received, contribution_events,
                             payout_events, claims, pools, next_claim_id,
                             token_balance, now, penalty_records >>

\* The request is approved by the votes cast.
refund_approved(request) ==
    request.votes_for * 100
        >= REFUND_APPROVAL_THRESHOLD * (request.votes_for + request.votes_against)

\* Voting is over: the deadline has passed or every member has voted.
voting_closed(request, group) ==
    \/ now > request.voting_deadline
    \/ request.votes_for + request.votes_against >= Len(group.members)

execute_refund_result(group_id) ==
    IF ~ensure_not_paused THEN "ContractPaused"
    ELSE IF group_id \notin GroupIds THEN "GroupNotFound"
    ELSE IF group_closed(group_id) THEN "GroupComplete"
    ELSE IF group_id \notin DOMAIN refund_requests THEN "RefundRequestNotFound"
    ELSE LET request == refund_requests[group_id]
             group == groups[group_id]
         IN  IF request.executed THEN "RefundAlreadyExecuted"
             ELSE IF ~voting_closed(request, group) THEN "VotingPeriodActive"
             ELSE IF refund_approved(request)
             THEN check_contract_balance(refund_total(group))
             ELSE "Ok"

execute_refund(group_id) ==
    LET res == execute_refund_result(group_id)
    IN  IF res # "Ok"
        THEN Fail("execute_refund", NoAddress, group_id, << >>, res)
        ELSE LET approved == refund_approved(refund_requests[group_id])
             IN  /\ refund_requests' = [refund_requests EXCEPT
                        ![group_id].executed = TRUE, ![group_id].approved = approved]
                 /\ group_state' = IF approved
                                   THEN [group_state EXCEPT ![group_id] = "Cancelled"]
                                   ELSE group_state
                 /\ token_balance' = IF approved
                                     THEN refund_contributors(groups[group_id])
                                     ELSE token_balance
                 /\ Return("execute_refund", NoAddress, group_id, << >>, "Ok", approved)
                 /\ UNCHANGED << admin, paused, next_group_id, groups, contributions,
                                 payout_received, contribution_events, payout_events,
                                 claims, pools, next_claim_id, refund_votes, now,
                                 penalty_records >>

(***************************************************************************)
(* u32 counters.  A u32 is written as a pair <<hi, lo>> that stands for    *)
(* hi * U32Limb + lo, so that u32::MAX can be written.  Adding to          *)
(* u32::MAX or subtracting from 0 panics in a build with overflow checks   *)
(* and wraps in a build without; both builds are modelled.                 *)
(***************************************************************************)
U32Limb == 256 * 256
U32Zero == << 0, 0 >>
U32Max == << U32Limb - 1, U32Limb - 1 >>
U32Inc(c) ==
    IF c[2] + 1 < U32Limb THEN << c[1], c[2] + 1 >>
    ELSE IF c[1] + 1 < U32Limb THEN << c[1] + 1, 0 >>
    ELSE U32Zero
U32Dec(c) ==
    IF c[2] > 0 THEN << c[1], c[2] - 1 >>
    ELSE IF c[1] > 0 THEN << c[1] - 1, U32Limb - 1 >>
    ELSE U32Max

(***************************************************************************)
(* insurance.rs.  Each function is modelled as it reads and writes         *)
(* storage: file_claim stores the claim before it looks the group up.      *)
(***************************************************************************)
\* Group.token_address (types.rs): the groups of the model use one token.
token_address(group) == TokenAddress

\* The pool a token has when none is stored.
empty_pool == [balance |-> 0, total_payouts |-> 0, pending_claims_count |-> U32Zero]

get_insurance_pool_or_default(token) ==
    IF token \in DOMAIN pools THEN pools[token] ELSE empty_pool

store_insurance_pool(token, pool) ==
    IF token \in DOMAIN pools THEN [pools EXCEPT ![token] = pool]
    ELSE pools @@ (token :> pool)

\* types.rs: the insurance configuration of a group.  contract.rs does not
\* store it; a group has the documented example, 1% and enabled.
insurance_config(group) == [ rate_bps |-> 100, is_enabled |-> TRUE ]

\* (amount * rate_bps) / 10000 for amount >= 0, with the product split at
\* 10000 so that no intermediate value leaves the 32-bit range.
calculate_premium(amount, rate_bps) ==
    (amount \div 10000) * rate_bps + ((amount % 10000) * rate_bps) \div 10000

deposit_to_pool(token, amount) ==
    LET pool == get_insurance_pool_or_default(token)
    IN  /\ pools' = store_insurance_pool(token, [pool EXCEPT !.balance = @ + amount])
        /\ Return("deposit_to_pool", NoAddress, 0, << token, amount >>, "Ok", 0)
        /\ UNCHANGED << admin, paused, next_group_id, groups, group_state,
                        contributions, payout_received, contribution_events,
                        payout_events, claims, next_claim_id, token_balance, now,
                        refund_requests, refund_votes, penalty_records >>

\* The InsuranceClaim value file_claim builds.
new_claim(claim_id, group_id, cycle, claimant, defaulter, amount, timestamp) ==
    [ id |-> claim_id,
      group_id |-> group_id,
      cycle |-> cycle,
      defaulter |-> defaulter,
      claimant |-> claimant,
      amount |-> amount,
      status |-> "Pending",
      created_at |-> timestamp ]

file_claim(group_id, cycle, claimant, defaulter, amount) ==
    LET claim_id == next_claim_id
        claim == new_claim(claim_id, group_id, cycle, claimant, defaulter, amount, now)
        args == << group_id, cycle, defaulter, amount >>
        stored == IF claim_id \in DOMAIN claims THEN [claims EXCEPT ![claim_id] = claim]
                  ELSE claims @@ (claim_id :> claim)
    IN  IF group_id \notin GroupIds
        THEN \* the claim is stored and the id taken before the group is looked up
             /\ next_claim_id' = next_claim_id + 1
             /\ claims' = stored
             /\ Return("file_claim", claimant, group_id, args, "GroupNotFound", 0)
             /\ UNCHANGED << admin, paused, next_group_id, groups, group_state,
                             contributions, payout_received, contribution_events,
                             payout_events, pools, token_balance, now,
                             refund_requests, refund_votes, penalty_records >>
        ELSE LET token == token_address(groups[group_id])
                 pool == get_insurance_pool_or_default(token)
                 commit ==
                     /\ next_claim_id' = next_claim_id + 1
                     /\ claims' = stored
                     /\ pools' = store_insurance_pool(token,
                            [pool EXCEPT !.pending_claims_count = U32Inc(@)])
                     /\ Return("file_claim", claimant, group_id, args, "Ok", claim_id)
                     /\ UNCHANGED << admin, paused, next_group_id, groups, group_state,
                                     contributions, payout_received, contribution_events,
                                     payout_events, token_balance, now,
                                     refund_requests, refund_votes, penalty_records >>
             IN  IF pool.pending_claims_count = U32Max
                 THEN \/ Fail("file_claim", claimant, group_id, args, "Panic")
                      \/ commit
                 ELSE commit

\* The checks of process_claim, in the order the code makes them.
process_claim_result_no_pending_check(claim_id, approved) ==
    IF claim_id \notin DOMAIN claims THEN "InvalidClaim"
    ELSE LET claim == claims[claim_id]
         IN  IF claim.group_id \notin GroupIds THEN "GroupNotFound"
             ELSE LET token == token_address(groups[claim.group_id])
                  IN  IF token \notin DOMAIN pools THEN "PoolNotFound"
                      ELSE IF approved /\ pools[token].balance < claim.amount
                      THEN "InsufficientPoolBalance"
                      ELSE "Ok"

process_claim_result_no_balance_check(claim_id, approved) ==
    IF claim_id \notin DOMAIN claims THEN "InvalidClaim"
    ELSE LET claim == claims[claim_id]
         IN  IF claim.status # "Pending" THEN "ClaimAlreadyProcessed"
             ELSE IF claim.group_id \notin GroupIds THEN "GroupNotFound"
             ELSE LET token == token_address(groups[claim.group_id])
                  IN  IF token \notin DOMAIN pools THEN "PoolNotFound"
                      ELSE "Ok"

process_claim_result(claim_id, approved) ==
    IF claim_id \notin DOMAIN claims THEN "InvalidClaim"
    ELSE LET claim == claims[claim_id]
         IN  IF claim.status # "Pending" THEN "ClaimAlreadyProcessed"
             ELSE IF claim.group_id \notin GroupIds THEN "GroupNotFound"
             ELSE LET token == token_address(groups[claim.group_id])
                  IN  IF token \notin DOMAIN pools THEN "PoolNotFound"
                      ELSE IF approved /\ pools[token].balance < claim.amount
                      THEN "InsufficientPoolBalance"
                      ELSE "Ok"

\* The pool process_claim stores for a claim of `amount`.
settled_pool(pool, amount, approved) ==
    IF approved
    THEN [pool EXCEPT !.balance = @ - amount,
                      !.total_payouts = @ + amount,
                      !.pending_claims_count = U32Dec(@)]
    ELSE [pool EXCEPT !.pending_claims_count = U32Dec(@)]

\* process_claim with the status written before the balance of the pool is checked.
process_claim_as_status_first(op, claim_id, approved) ==
    LET res == process_claim_result(claim_id, approved)
        args == << claim_id, approved >>
    IN  IF res = "InsufficientPoolBalance"
        THEN /\ claims' = [claims EXCEPT ![claim_id].status = "Paid"]
             /\ Return(op, NoAddress, 0, args, res, 0)
             /\ UNCHANGED << admin, paused, next_group_id, groups, group_state,
                             contributions, payout_received, contribution_events,
                             payout_events, pools, next_claim_id, token_balance, now,
                             refund_requests, refund_votes, penalty_records >>
        ELSE IF res # "Ok"
        THEN Fail(op, NoAddress, 0, args, res)
        ELSE LET claim == claims[claim_id]
                 token == token_address(groups[claim.group_id])
                 pool == pools[token]
             IN  /\ ~(approved /\ ~transfer_allowed(ContractAddress, claim.amount))
                 /\ pools' = store_insurance_pool(token,
                                 settled_pool(pool, claim.amount, approved))
                 /\ claims' = [claims EXCEPT ![claim_id].status =
                                   IF approved THEN "Paid" ELSE "Rejected"]
                 /\ token_balance' =
                        IF approved
                        THEN transfer_token(token_balance, ContractAddress,
                                            claim.claimant, claim.amount)
                        ELSE token_balance
                 /\ Return(op, NoAddress, 0, args, "Ok", 0)
                 /\ UNCHANGED << admin, paused, next_group_id, groups, group_state,
                                 contributions, payout_received, contribution_events,
                                 payout_events, next_claim_id, now,
                                 refund_requests, refund_votes, penalty_records >>

\* process_claim, called as `op` (process_claim itself or auto_process_claim).
process_claim_as(op, claim_id, approved) ==
    LET res == process_claim_result(claim_id, approved)
        args == << claim_id, approved >>
    IN  IF res # "Ok"
        THEN Fail(op, NoAddress, 0, args, res)
        ELSE LET claim == claims[claim_id]
                 token == token_address(groups[claim.group_id])
                 pool == pools[token]
                 commit ==
                     /\ pools' = store_insurance_pool(token,
                                     settled_pool(pool, claim.amount, approved))
                     /\ claims' = [claims EXCEPT ![claim_id].status =
                                       IF approved THEN "Paid" ELSE "Rejected"]
                     /\ token_balance' =
                            IF approved
                            THEN transfer_token(token_balance, ContractAddress,
                                                claim.claimant, claim.amount)
                            ELSE token_balance
                     /\ Return(op, NoAddress, 0, args, "Ok", 0)
                     /\ UNCHANGED << admin, paused, next_group_id, groups, group_state,
                                     contributions, payout_received, contribution_events,
                                     payout_events, next_claim_id, now,
                                     refund_requests, refund_votes, penalty_records >>
             IN  IF approved /\ ~transfer_allowed(ContractAddress, claim.amount)
                 THEN Fail(op, NoAddress, 0, args, "Panic")
                 ELSE IF pool.pending_claims_count = U32Zero
                 THEN \/ Fail(op, NoAddress, 0, args, "Panic")
                      \/ commit
                 ELSE commit

process_claim(claim_id, approved) == process_claim_as("process_claim", claim_id, approved)

\* What verify_claim returns for a stored claim.
verify_claim_value_negated(claim_id) ==
    has_contributed(claims[claim_id].group_id, claims[claim_id].cycle,
                    claims[claim_id].defaulter)

verify_claim_value(claim_id) ==
    ~has_contributed(claims[claim_id].group_id, claims[claim_id].cycle,
                     claims[claim_id].defaulter)

verify_claim(claim_id) ==
    IF claim_id \notin DOMAIN claims
    THEN Fail("verify_claim", NoAddress, 0, << claim_id >>, "InvalidClaim")
    ELSE /\ Return("verify_claim", NoAddress, 0, << claim_id >>, "Ok",
                   verify_claim_value(claim_id))
         /\ UNCHANGED << admin, paused, next_group_id, groups, group_state,
                         contributions, payout_received, contribution_events,
                         payout_events, claims, pools, next_claim_id, token_balance,
                         now,
                         refund_requests, refund_votes, penalty_records >>

auto_process_claim_always_approves(claim_id) ==
    IF claim_id \notin DOMAIN claims
    THEN Fail("auto_process_claim", NoAddress, 0, << claim_id >>, "InvalidClaim")
    ELSE process_claim_as("auto_process_claim", claim_id, TRUE)

\* verify_claim(claim_id)?, then process_claim with what it returned.
auto_process_claim(claim_id) ==
    IF claim_id \notin DOMAIN claims
    THEN Fail("auto_process_claim", NoAddress, 0, << claim_id >>, "InvalidClaim")
    ELSE process_claim_as("auto_process_claim", claim_id, verify_claim_value(claim_id))

(***************************************************************************)
(* The ledger clock.                                                       *)
(***************************************************************************)
Tick ==
    /\ now < MaxNow
    /\ now' = now + 1
    /\ Return("tick", NoAddress, 0, << >>, "Ok", 0)
    /\ UNCHANGED << admin, paused, next_group_id, groups, group_state, contributions,
                    payout_received, contribution_events, payout_events,
                    claims, pools, next_claim_id, token_balance,
                    refund_requests, refund_votes, penalty_records >>

(***************************************************************************)
(* types.rs: the grace period of a group.  contract.rs does not store it;   *)
(* a group has the documented default.                                     *)
(***************************************************************************)
grace_period(group) == 86400

\* The end of the group's current cycle and of its grace period.
cycle_end_time(group) == group.cycle_start_time + group.cycle_duration

grace_period_end_time(group) == cycle_end_time(group) + grace_period(group)

\* The ledger closes at a later timestamp.
LedgerInputs == { 3600, 3601, 90000, 90001 }

ledger_set_timestamp(timestamp) ==
    /\ timestamp > now
    /\ now' = timestamp
    /\ Return("set_timestamp", NoAddress, 0, << timestamp >>, "Ok", 0)
    /\ UNCHANGED << admin, paused, next_group_id, groups, group_state, contributions,
                    payout_received, contribution_events, payout_events,
                    claims, pools, next_claim_id, token_balance,
                    refund_requests, refund_votes, penalty_records >>

(***************************************************************************)
(* contract.rs: the query entry points.  Each reads storage and writes     *)
(* nothing; none of them checks the pause flag.                            *)
(***************************************************************************)
query_result_when_unpaused(group_id) ==
    IF ~ensure_not_paused THEN "ContractPaused"
    ELSE IF group_id \notin GroupIds THEN "GroupNotFound"
    ELSE "Ok"

\* storage::get_group(..).ok_or(GroupNotFound), the only check of a query.
query_result(group_id) ==
    IF group_id \notin GroupIds THEN "GroupNotFound" ELSE "Ok"

\* A query returns `value` for an existing group and writes nothing.
query(op, who, group_id, args, value) ==
    LET res == query_result(group_id)
    IN  IF res # "Ok"
        THEN Fail(op, who, group_id, args, res)
        ELSE /\ Return(op, who, group_id, args, "Ok", value)
             /\ UNCHANGED << admin, paused, next_group_id, groups, group_state,
                             contributions, payout_received, contribution_events,
                             payout_events, claims, pools, next_claim_id,
                             token_balance, refund_requests, refund_votes, now,
                             penalty_records >>

get_group(group_id) ==
    query("get_group", NoAddress, group_id, << >>,
          IF group_id \in GroupIds THEN groups[group_id] ELSE 0)

list_members(group_id) ==
    query("list_members", NoAddress, group_id, << >>,
          IF group_id \in GroupIds THEN groups[group_id].members ELSE 0)

\* AjoContract::is_member (the entry point; is_member above is the helper).
contract_is_member(group_id, address) ==
    query("is_member", address, group_id, << >>,
          IF group_id \in GroupIds
          THEN is_member(groups[group_id].members, address) ELSE 0)

\* storage::get_cycle_contributions: each member with its flag for the cycle.
get_cycle_contributions(group_id, cycle_number, members) ==
    [i \in 1..Len(members) |->
        << members[i], has_contributed(group_id, cycle_number, members[i]) >>]

get_contribution_status(group_id, cycle_number) ==
    query("get_contribution_status", NoAddress, group_id, << cycle_number >>,
          IF group_id \in GroupIds
          THEN get_cycle_contributions(group_id, cycle_number,
                                       groups[group_id].members)
          ELSE 0)

is_complete(group_id) ==
    query("is_complete", NoAddress, group_id, << >>,
          IF group_id \in GroupIds THEN groups[group_id].is_complete ELSE 0)

\* The GroupStatus value get_group_status builds.
group_status(group, current_time) ==
    LET pending(member) == ~has_contributed(group.id, group.current_cycle, member)
        pending_contributors == SelectSeq(group.members, pending)
    IN  [ group_id |-> group.id,
          current_cycle |-> group.current_cycle,
          has_next_recipient |-> ~group.is_complete,
          next_recipient |->
              IF group.is_complete THEN group.creator
              ELSE IF group.payout_index < Len(group.members)
              THEN group.members[group.payout_index + 1]
              ELSE group.creator,
          contributions_received |->
              Len(group.members) - Len(pending_contributors),
          total_members |-> Len(group.members),
          pending_contributors |-> pending_contributors,
          is_complete |-> group.is_complete,
          is_cycle_active |-> current_time < cycle_end_time(group),
          cycle_start_time |-> group.cycle_start_time,
          cycle_end_time |-> cycle_end_time(group),
          current_time |-> current_time ]

get_group_status(group_id) ==
    query("get_group_status", NoAddress, group_id, << >>,
          IF group_id \in GroupIds THEN group_status(groups[group_id], now) ELSE 0)

(***************************************************************************)
(* security.rs: validate_group_params called on its own.                   *)
(***************************************************************************)
validate_group_params_call(contribution_amount, cycle_duration, max_members) ==
    /\ Return("validate_group_params", NoAddress, 0,
              << contribution_amount, cycle_duration, max_members >>,
              validate_group_params(contribution_amount, cycle_duration, max_members), 0)
    /\ UNCHANGED << admin, paused, next_group_id, groups, group_state, contributions,
                    payout_received, contribution_events, payout_events, claims,
                    pools, next_claim_id, token_balance, refund_requests,
                    refund_votes, now, penalty_records >>

Next ==
    \/ initialize(AdminAddress)
    \/ \E caller \in {AdminAddress, "a1"} : pause(caller)
    \/ \E caller \in {AdminAddress, "a1"} : unpause(caller)
    \/ /\ next_group_id \in GroupIdInputs
       /\ \E creator \in Address, a \in AmountInputs, d \in DurationInputs,
             m \in MaxMembersInputs : create_group(creator, a, d, m)
    \/ \E member \in Address, g \in GroupIdInputs : join_group(member, g)
    \/ \E member \in Address, g \in GroupIdInputs : contribute(member, g)
    \/ \E g \in GroupIdInputs : execute_payout(g)
    \/ \E creator \in Address, g \in GroupIdInputs : cancel_group(creator, g)
    \/ Tick

Spec == Init /\ [][Next]_vars

(***************************************************************************)
(* The insurance functions, with one group (created by a1, joined by a2)   *)
(* whose member a2 is the defaulter the claims name.                       *)
(***************************************************************************)
InsuranceNext ==
    \/ /\ next_group_id \in GroupIdInputs
       /\ \E amount \in { I128Zero, << 1, 0 >> } : create_group("a1", amount, 3600, 2)
    \/ join_group("a2", 1)
    \/ contribute("a2", 1)
    \/ execute_payout(1)
    \/ /\ token_balance[ContractAddress] \in ContractBalanceRange
       /\ \E amount \in MintInputs : token_mint(amount)
    \/ /\ get_insurance_pool_or_default(TokenAddress).balance \in PoolBalanceRange
       /\ \E amount \in DepositInputs : deposit_to_pool(TokenAddress, amount)
    \/ /\ next_claim_id \in ClaimIdInputs
       /\ \E g \in GroupIdInputs, amount \in ClaimAmountInputs :
             file_claim(g, 1, "a1", "a2", amount)
    \/ \E c \in ClaimIdInputs, approved \in BOOLEAN : process_claim(c, approved)
    \/ \E c \in ClaimIdInputs : verify_claim(c)
    \/ \E c \in ClaimIdInputs : auto_process_claim(c)

InsuranceSpec == Init /\ [][InsuranceNext]_vars

(***************************************************************************)
(* Cancellation and refunds: one group of up to three members, funded      *)
(* from outside in units of the contribution amount.                       *)
(***************************************************************************)
RefundNext ==
    \/ /\ next_group_id \in GroupIdInputs
       /\ \E m \in { 2, 3 } : create_group("a1", << 1, 0 >>, 3600, m)
    \/ \E member \in Address : join_group(member, 1)
    \/ \E member \in Address : contribute(member, 1)
    \/ execute_payout(1)
    \/ \E creator \in { "a1", "a2" } : cancel_group(creator, 1)
    \/ /\ token_balance[ContractAddress] \in RefundBalanceRange
       /\ token_mint(Limb)

RefundSpec == Init /\ [][RefundNext]_vars

(***************************************************************************)
(* Claims that are filed and then settled by auto_process_claim only.      *)
(***************************************************************************)
AutoClaimNext ==
    \/ /\ next_group_id \in GroupIdInputs
       /\ create_group("a1", << 1, 0 >>, 3600, 2)
    \/ join_group("a2", 1)
    \/ contribute("a2", 1)
    \/ /\ token_balance[ContractAddress] \in ContractBalanceRange
       /\ \E amount \in MintInputs : token_mint(amount)
    \/ /\ get_insurance_pool_or_default(TokenAddress).balance \in PoolBalanceRange
       /\ \E amount \in DepositInputs : deposit_to_pool(TokenAddress, amount)
    \/ /\ next_claim_id \in ClaimIdInputs
       /\ \E g \in GroupIdInputs, amount \in ClaimAmountInputs :
             file_claim(g, 1, "a1", "a2", amount)
    \/ \E c \in ClaimIdInputs : auto_process_claim(c)

AutoClaimSpec == Init /\ [][AutoClaimNext]_vars

(***************************************************************************)
(* One group of a1 and a2 while the ledger clock passes the end of the     *)
(* cycle and the end of the grace period.                                  *)
(***************************************************************************)
LatenessNext ==
    \/ /\ next_group_id \in GroupIdInputs
       /\ create_group("a1", << 1, 0 >>, 3600, 2)
    \/ join_group("a2", 1)
    \/ \E member \in { "a1", "a2", "a3" } : contribute(member, 1)
    \/ execute_payout(1)
    \/ \E timestamp \in LedgerInputs : ledger_set_timestamp(timestamp)

LatenessSpec == Init /\ [][LatenessNext]_vars

(***************************************************************************)
(* One group of up to three members, a refund request on it, the votes     *)
(* and its resolution, while the ledger clock passes the voting deadline.  *)
(***************************************************************************)
VoteLedgerInputs == { VOTING_PERIOD, VOTING_PERIOD + 1 }

RefundVoteNext ==
    \/ /\ next_group_id \in GroupIdInputs
       /\ create_group("a1", << 1, 0 >>, 3600, 3)
    \/ \E member \in { "a2", "a3" } : join_group(member, 1)
    \/ contribute("a1", 1)
    \/ /\ token_balance[ContractAddress] = 0
       /\ token_mint(Limb)
    \/ \E requester \in { "a1", "a3" } : request_refund(requester, 1)
    \/ \E voter \in Address, in_favor \in BOOLEAN : vote_refund(voter, 1, in_favor)
    \/ execute_refund(1)
    \/ \E timestamp \in VoteLedgerInputs : ledger_set_timestamp(timestamp)

RefundVoteSpec == Init /\ [][RefundVoteNext]_vars

(***************************************************************************)
(* The queries on a group of a1 and a2 that is created, paid into and paid *)
(* out while the admin pauses and unpauses the contract.                   *)
(***************************************************************************)
QueryGroupIds == { 1, 2 }

QueryNext ==
    \/ initialize(AdminAddress)
    \/ pause(AdminAddress)
    \/ unpause(AdminAddress)
    \/ /\ next_group_id \in GroupIdInputs
       /\ create_group("a1", << 1, 0 >>, 3600, 2)
    \/ join_group("a2", 1)
    \/ \E member \in { "a1", "a2" } : contribute(member, 1)
    \/ execute_payout(1)
    \/ ledger_set_timestamp(3600)
    \/ \E g \in QueryGroupIds : get_group(g)
    \/ \E g \in QueryGroupIds : list_members(g)
    \/ \E g \in QueryGroupIds, address \in { "a1", "a2" } : contract_is_member(g, address)
    \/ \E g \in QueryGroupIds, cycle_number \in { 1, 2 } :
          get_contribution_status(g, cycle_number)
    \/ \E g \in QueryGroupIds : get_group_status(g)
    \/ \E g \in QueryGroupIds : is_complete(g)

QuerySpec == Init /\ [][QueryNext]_vars

(***************************************************************************)
(* The rotation of one group of up to three members on an unpaused         *)
(* contract.  Every address keeps calling contribute and execute_payout    *)
(* keeps being called: both are weakly fair.  Nothing obliges anyone to    *)
(* create or to join the group.                                            *)
(***************************************************************************)
RotationNext ==
    \/ /\ next_group_id \in GroupIdInputs
       /\ create_group("a1", << 1, 0 >>, 3600, 3)
    \/ \E member \in { "a2", "a3" } : join_group(member, 1)
    \/ \E member \in Address : contribute(member, 1)
    \/ execute_payout(1)

RotationSpec ==
    /\ Init
    /\ [][RotationNext]_vars
    /\ \A member \in Address : WF_vars(contribute(member, 1))
    /\ WF_vars(execute_payout(1))

(***************************************************************************)
(* Group parameters at and around every limit of security.rs, given to     *)
(* validate_group_params and to create_group on a contract that the admin  *)
(* may have paused.  MAX_CONTRIBUTION itself goes to validate_group_params *)
(* only: stored amounts stay within 32-bit integers.                       *)
(***************************************************************************)
\* 0, -1, 99_999, 100_000, 100_000_000, 10^16 + 1.
LimitAmountInputs ==
    { << 0, 0 >>, << -1, Limb - 1 >>, << 0, 99999 >>, << 0, 100000 >>, << 1, 0 >>,
      << Limb, 1 >> }
LimitDurationInputs == { 0, 3599, 3600, 31536000, 31536001 }
LimitMaxMembersInputs == { 1, 2, 100, 101 }

ValidationNext ==
    \/ initialize(AdminAddress)
    \/ pause(AdminAddress)
    \/ unpause(AdminAddress)
    \/ \E a \in LimitAmountInputs \cup { MAX_CONTRIBUTION }, d \in LimitDurationInputs,
          m \in LimitMaxMembersInputs : validate_group_params_call(a, d, m)
    \/ /\ next_group_id \in GroupIdInputs
       /\ \E a \in LimitAmountInputs, d \in LimitDurationInputs,
             m \in LimitMaxMembersInputs : create_group("a1", a, d, m)

ValidationSpec == Init /\ [][ValidationNext]_vars

(***************************************************************************)
(* Initialization by either of two addresses, again and again, between     *)
(* the other calls of the admin and of the members of one group.           *)
(***************************************************************************)
AdminInputs == { AdminAddress, "a1" }

AdminNext ==
    \/ \E new_admin \in AdminInputs : initialize(new_admin)
    \/ \E caller \in AdminInputs : pause(caller)
    \/ \E caller \in AdminInputs : unpause(caller)
    \/ /\ next_group_id \in GroupIdInputs
       /\ create_group("a1", << 1, 0 >>, 3600, 2)
    \/ join_group("a2", 1)
    \/ \E member \in { "a1", "a2" } : contribute(member, 1)
    \/ execute_payout(1)

AdminSpec == Init /\ [][AdminNext]_vars

(***************************************************************************)
(* The pool of the token under deposits and claims of any sign.            *)
(***************************************************************************)
AnyDepositInputs == { -1, 2 }
AnyClaimAmountInputs == { -1, 1 }
AnyPoolBalanceRange == -2 .. 2

AnyAmountNext ==
    \/ /\ next_group_id \in GroupIdInputs
       /\ create_group("a1", << 1, 0 >>, 3600, 2)
    \/ /\ token_balance[ContractAddress] \in ContractBalanceRange
       /\ \E amount \in MintInputs : token_mint(amount)
    \/ /\ get_insurance_pool_or_default(TokenAddress).balance \in AnyPoolBalanceRange
       /\ \E amount \in AnyDepositInputs : deposit_to_pool(TokenAddress, amount)
    \/ /\ next_claim_id \in ClaimIdInputs
       /\ \E g \in GroupIdInputs, amount \in AnyClaimAmountInputs :
             file_claim(g, 1, "a1", "a2", amount)
    \/ \E c \in ClaimIdInputs, approved \in BOOLEAN : process_claim(c, approved)

AnyAmountSpec == Init /\ [][AnyAmountNext]_vars

(***************************************************************************)
(* Two groups of up to two members each, which a1 and a2 create, join,     *)
(* pay into and pay out, so that one address can be a member of both.      *)
(***************************************************************************)
TwoGroupIds == { 1, 2 }

IsolationNext ==
    \/ /\ next_group_id \in TwoGroupIds
       /\ \E creator \in { "a1", "a2" } : create_group(creator, << 1, 0 >>, 3600, 2)
    \/ \E member \in { "a1", "a2" }, g \in TwoGroupIds : join_group(member, g)
    \/ \E member \in { "a1", "a2" }, g \in TwoGroupIds : contribute(member, g)
    \/ \E g \in TwoGroupIds : execute_payout(g)

IsolationSpec == Init /\ [][IsolationNext]_vars

(***************************************************************************)
(* Properties.  `last` is the call that led to the state and `pre` the     *)
(* storage it started from.                                                *)
(***************************************************************************)
\* The members of a group as a set.
MemberSet(group) == { group.members[i] : i \in 1..Len(group.members) }

\* The call that led here was `op` on a group that existed when it started.
LastOn(op) == last.op = op /\ last.gid \in DOMAIN pre.groups

\* The group the last call was about, as it was when the call started.
PreGroup == pre.groups[last.gid]

\* Some member of the group had no contribution flag for its current cycle
\* when the last call started.
PreSomeMemberLacks ==
    \E i \in 1..Len(PreGroup.members) :
        << PreGroup.id, PreGroup.current_cycle, PreGroup.members[i] >> \notin pre.contributions

\* C1: in every state, every group has payout_index <= number of members, and
\* is complete exactly when payout_index equals the number of members.
C1_PayoutIndexAndCompletion ==
    \A g \in GroupIds :
        /\ groups[g].payout_index <= Len(groups[g].members)
        /\ groups[g].is_complete <=> (groups[g].payout_index = Len(groups[g].members))

\* A group of three members has completed its rotation.
C1_Witness ==
    \E g \in GroupIds : groups[g].is_complete /\ Len(groups[g].members) = 3

\* C2: the k-th successful payout of a group went to its k-th member in join
\* order, each successful execute_payout added exactly one payout, to
\* members[payout_index] of the time of the call, no member was paid twice, and
\* in a complete group every member was paid exactly once.
C2_RotationInJoinOrder ==
    /\ \A g \in GroupIds :
          LET group == groups[g]
              paid == payout_events[g]
          IN  /\ Len(paid) = group.payout_index
              /\ Len(paid) <= Len(group.members)
              /\ \A k \in 1..Len(paid) : paid[k].recipient = group.members[k]
              /\ \A j, k \in 1..Len(paid) : paid[j].recipient = paid[k].recipient => j = k
              /\ { m \in Address : << g, m >> \in payout_received }
                    = { paid[k].recipient : k \in 1..Len(paid) }
              /\ group.is_complete =>
                    /\ Len(paid) = Len(group.members)
                    /\ \A m \in MemberSet(group) :
                          Cardinality({ k \in 1..Len(paid) : paid[k].recipient = m }) = 1
    /\ (LastOn("execute_payout") /\ last.res = "Ok") =>
          LET paid == payout_events[last.gid]
          IN  /\ Len(paid) = Len(pre.payout_events[last.gid]) + 1
              /\ SubSeq(paid, 1, Len(paid) - 1) = pre.payout_events[last.gid]
              /\ paid[Len(paid)].recipient = PreGroup.members[PreGroup.payout_index + 1]
              /\ \A g \in GroupIds \ { last.gid } : payout_events[g] = pre.payout_events[g]

\* The third payout of a group of three has just completed it.
C2_Witness ==
    /\ LastOn("execute_payout") /\ last.res = "Ok"
    /\ Len(payout_events[last.gid]) = 3
    /\ groups[last.gid].is_complete

\* C3 as stated: execute_payout on an existing group with a member that has
\* not contributed in the current cycle fails with IncompleteContributions and
\* leaves the group and the payout records unchanged.
C3_Original ==
    (LastOn("execute_payout") /\ PreSomeMemberLacks) =>
        /\ last.res = "IncompleteContributions"
        /\ groups = pre.groups
        /\ payout_received = pre.payout_received
        /\ payout_events = pre.payout_events

\* C3 as amended: while the contract is not paused, execute_payout on an
\* existing group with a member that has not contributed in the current cycle
\* fails with IncompleteContributions; while it is paused the call fails with
\* ContractPaused; in both cases the group and the payout records are unchanged.
C3_IncompleteContributions ==
    (LastOn("execute_payout") /\ PreSomeMemberLacks) =>
        /\ last.res = (IF pre.paused THEN "ContractPaused" ELSE "IncompleteContributions")
        /\ groups = pre.groups
        /\ payout_received = pre.payout_received
        /\ payout_events = pre.payout_events

\* execute_payout was refused although the creator and one more of the three
\* members had contributed.
C3_Witness ==
    /\ LastOn("execute_payout") /\ last.res = "IncompleteContributions"
    /\ Len(PreGroup.members) = 3
    /\ << PreGroup.id, PreGroup.current_cycle, PreGroup.members[1] >> \in contributions
    /\ << PreGroup.id, PreGroup.current_cycle, PreGroup.members[2] >> \in contributions

PreAlreadyContributed ==
    /\ LastOn("contribute")
    /\ << PreGroup.id, PreGroup.current_cycle, last.who >> \in pre.contributions

\* Nothing the contract stores or has emitted changed in the last call.
StorageUnchanged ==
    /\ admin = pre.admin
    /\ paused = pre.paused
    /\ next_group_id = pre.next_group_id
    /\ groups = pre.groups
    /\ group_state = pre.group_state
    /\ contributions = pre.contributions
    /\ payout_received = pre.payout_received
    /\ contribution_events = pre.contribution_events
    /\ payout_events = pre.payout_events
    /\ claims = pre.claims
    /\ pools = pre.pools
    /\ next_claim_id = pre.next_claim_id
    /\ token_balance = pre.token_balance
    /\ refund_requests = pre.refund_requests
    /\ refund_votes = pre.refund_votes
    /\ penalty_records = pre.penalty_records

\* C5 as stated: at most one contribution per (group, cycle, member), and a
\* second contribute by a member in the same cycle fails with
\* AlreadyContributed and changes nothing.
C5_Original ==
    /\ \A r \in BagToSet(contribution_events) : CopiesIn(r, contribution_events) = 1
    /\ PreAlreadyContributed => (last.res = "AlreadyContributed" /\ StorageUnchanged)

\* C5 as amended: at most one contribution per (group, cycle, member); a
\* second contribute by a member in the same cycle always fails and changes
\* nothing; the error is ContractPaused while the contract is paused,
\* GroupComplete once the payout of that cycle has completed the group, and
\* AlreadyContributed otherwise.
C5_OneContributionPerCycle ==
    /\ \A r \in BagToSet(contribution_events) : CopiesIn(r, contribution_events) = 1
    /\ BagToSet(contribution_events) = contributions
    /\ PreAlreadyContributed =>
          /\ last.res = (IF pre.paused THEN "ContractPaused"
                         ELSE IF PreGroup.is_complete THEN "GroupComplete"
                         ELSE "AlreadyContributed")
          /\ StorageUnchanged

\* A second contribute in the same cycle was refused with AlreadyContributed.
C5_Witness ==
    PreAlreadyContributed /\ last.res = "AlreadyContributed"

\* The last call was a join_group, contribute or execute_payout on a group
\* that was complete when the call started.
PreCompleteCall ==
    /\ last.op \in { "join_group", "contribute", "execute_payout" }
    /\ last.gid \in DOMAIN pre.groups
    /\ PreGroup.is_complete

\* A group that was complete before the last call is as it was.
CompleteGroupsFrozen ==
    \A g \in DOMAIN pre.groups : pre.groups[g].is_complete => groups[g] = pre.groups[g]

\* C6 as stated: on a complete group every join_group, contribute and
\* execute_payout fails with GroupComplete, and the group never changes.
C6_Original ==
    /\ PreCompleteCall => last.res = "GroupComplete"
    /\ CompleteGroupsFrozen

\* C6 as amended: on a complete group every join_group, contribute and
\* execute_payout fails, with GroupComplete while the contract is not paused
\* and with ContractPaused while it is, for members and non-members alike, and
\* the group (members, current_cycle, payout_index, completion flag) never
\* changes again.
C6_CompleteIsFinal ==
    /\ PreCompleteCall =>
          last.res = (IF pre.paused THEN "ContractPaused" ELSE "GroupComplete")
    /\ CompleteGroupsFrozen

\* A member's contribute to a complete group was refused with GroupComplete.
C6_Witness ==
    /\ PreCompleteCall /\ last.op = "contribute" /\ last.res = "GroupComplete"
    /\ last.who \in MemberSet(PreGroup)

\* C7: a Cancelled group stays Cancelled, and every join_group, contribute and
\* execute_payout on it is rejected without changing the member list, the
\* contribution records, current_cycle or payout_index.
C7_CancelledIsFinal ==
    \A g \in DOMAIN pre.groups :
        pre.group_state[g] = "Cancelled" =>
            /\ group_state[g] = "Cancelled"
            /\ ~groups[g].is_complete
            /\ (last.gid = g /\ last.op \in { "join_group", "contribute", "execute_payout" })
                  => last.res # "Ok"
            /\ groups[g].members = pre.groups[g].members
            /\ groups[g].current_cycle = pre.groups[g].current_cycle
            /\ groups[g].payout_index = pre.groups[g].payout_index
            /\ { r \in contributions : r[1] = g } = { r \in pre.contributions : r[1] = g }

\* C8: in every state every stored group has no duplicate member, the creator
\* as its first member, 1 <= members <= max_members, 2 <= max_members <= 100
\* and contribution_amount > 0.
C8_GroupWellFormed ==
    \A g \in GroupIds :
        LET group == groups[g]
        IN  /\ \A i, j \in 1..Len(group.members) :
                  group.members[i] = group.members[j] => i = j
            /\ Len(group.members) >= 1
            /\ group.members[1] = group.creator
            /\ Len(group.members) <= group.max_members
            /\ 2 <= group.max_members /\ group.max_members <= 100
            /\ group.contribution_amount > 0

\* A group is full: it has max_members = 3 members.
C8_Witness ==
    \E g \in GroupIds : Len(groups[g].members) = 3 /\ groups[g].max_members = 3

\* The last call was a join_group on a group that was Active when it started.
PreJoinActive ==
    /\ LastOn("join_group")
    /\ ~PreGroup.is_complete
    /\ pre.group_state[last.gid] = "Active"

PreFull == Len(PreGroup.members) >= PreGroup.max_members

PreIsMember == last.who \in MemberSet(PreGroup)

LastParamsValid ==
    LET amount == last.args[1]
        duration == last.args[2]
        max_members == last.args[3]
    IN  /\ ~I128Lt(amount, <<0, 100000>>)
        /\ ~I128Lt(<<100000000, 0>>, amount)
        /\ duration >= 3600 /\ duration <= 31536000
        /\ max_members >= 2 /\ max_members <= 100

\* C10: create_group with valid parameters, when the contract is not paused,
\* succeeds, and the group it stores has payout_index 0, current_cycle 1, is
\* not complete, has cycle_start_time = created_at = now and the creator as
\* its only member.
C10_CreateGroup ==
    (last.op = "create_group" /\ ~pre.paused /\ LastParamsValid) =>
        /\ last.res = "Ok"
        /\ last.ret = pre.next_group_id
        /\ last.ret \notin DOMAIN pre.groups
        /\ DOMAIN groups = DOMAIN pre.groups \cup { last.ret }
        /\ LET group == groups[last.ret]
           IN  /\ group.id = last.ret
               /\ group.creator = last.who
               /\ group.payout_index = 0
               /\ group.current_cycle = 1
               /\ ~group.is_complete
               /\ group_state[last.ret] = "Active"
               /\ group.cycle_start_time = pre.now
               /\ group.created_at = pre.now
               /\ now = pre.now
               /\ group.members = << last.who >>
               /\ group.contribution_amount = I128Value(last.args[1])
               /\ group.cycle_duration = last.args[2]
               /\ group.max_members = last.args[3]

\* A group was created at a ledger time other than 0.
C10_Witness ==
    /\ last.op = "create_group" /\ last.res = "Ok"
    /\ now = 1
    /\ groups[last.ret].max_members = 3

(***************************************************************************)
(* Cancellation and refunds (RefundSpec).                                  *)
(***************************************************************************)
\* The members that had a contribution recorded for the current cycle of the
\* group when the last call started.
PreContributors ==
    { m \in MemberSet(PreGroup) :
        << PreGroup.id, PreGroup.current_cycle, m >> \in pre.contributions }

\* The last call was a successful cancel_group by the creator of a group that
\* had made no payout.
CreatorCancelled ==
    /\ LastOn("cancel_group")
    /\ last.who = PreGroup.creator
    /\ PreGroup.payout_index = 0
    /\ last.res = "Ok"

\* C11: a cancellation by the creator before any payout sets the group state
\* to Cancelled, pays every contributor of the current cycle exactly the
\* contribution amount and nobody else anything, and leaves each
\* contributor's token balance at its pre-contribution value.  (Here a
\* member's balance changes in contribute and cancel_group only, and one group
\* is cancelled at most once, so the pre-contribution value is the balance the
\* member started with, zero.)
C11_CancelRefundsRoundTrip ==
    CreatorCancelled =>
        /\ group_state[last.gid] = "Cancelled"
        /\ \A m \in Address :
              token_balance[m] = pre.token_balance[m] +
                  (IF m \in PreContributors THEN PreGroup.contribution_amount ELSE 0)
        /\ \A m \in PreContributors : token_balance[m] = 0

LastOnClaim(op) == last.op = op /\ last.args[1] \in DOMAIN pre.claims

\* The claim the last call was about, as it was when the call started.
PreClaim == pre.claims[last.args[1]]

\* The group of that claim existed and its token had a pool when the call
\* started.
PreClaimHasPool ==
    /\ PreClaim.group_id \in DOMAIN pre.groups
    /\ TokenAddress \in DOMAIN pre.pools

PrePool == pre.pools[TokenAddress]

\* C13: process_claim(claim_id, TRUE) on a Pending claim whose amount exceeds
\* the balance of the pool of its group's token fails with
\* InsufficientPoolBalance and leaves the pool and the claim as they were.
C13_InsufficientPoolBalance ==
    ( /\ LastOnClaim("process_claim")
      /\ last.args[2] = TRUE
      /\ PreClaim.status = "Pending"
      /\ PreClaimHasPool
      /\ PrePool.balance < PreClaim.amount ) =>
        /\ last.res = "InsufficientPoolBalance"
        /\ pools = pre.pools
        /\ claims = pre.claims
        /\ claims[last.args[1]].status = "Pending"

\* A claim of 2 was refused against a pool that held 1.
C13_Witness ==
    /\ LastOnClaim("process_claim")
    /\ last.args[2] = TRUE
    /\ PreClaim.status = "Pending"
    /\ PreClaimHasPool
    /\ PrePool.balance = 1
    /\ PreClaim.amount = 2
    /\ last.res = "InsufficientPoolBalance"

\* C14: every claim is created Pending, its status is Pending, Paid or
\* Rejected and never Approved, a claim that is Paid or Rejected never changes
\* again, and process_claim on a claim that is not Pending fails with
\* ClaimAlreadyProcessed and changes neither the claims nor the pools.
C14_ClaimStatusOnce ==
    /\ \A c \in DOMAIN claims : claims[c].status \in { "Pending", "Paid", "Rejected" }
    /\ \A c \in DOMAIN claims \ DOMAIN pre.claims : claims[c].status = "Pending"
    /\ \A c \in DOMAIN pre.claims :
          /\ c \in DOMAIN claims
          /\ pre.claims[c].status # "Pending" => claims[c] = pre.claims[c]
          /\ [claims[c] EXCEPT !.status = "Pending"] =
                [pre.claims[c] EXCEPT !.status = "Pending"]
    /\ ( /\ last.op \in { "process_claim", "auto_process_claim" }
         /\ last.args[1] \in DOMAIN pre.claims
         /\ PreClaim.status # "Pending" ) =>
            /\ last.res = "ClaimAlreadyProcessed"
            /\ claims = pre.claims
            /\ pools = pre.pools

\* A second process_claim on a claim that had been paid was refused.
C14_Witness ==
    /\ LastOnClaim("process_claim")
    /\ PreClaim.status = "Paid"
    /\ last.args[2] = TRUE
    /\ PreClaimHasPool
    /\ PrePool.balance >= PreClaim.amount
    /\ last.res = "ClaimAlreadyProcessed"

\* The last call was a successful process_claim on a claim that was Pending.
ProcessedOk ==
    /\ LastOnClaim("process_claim")
    /\ PreClaim.status = "Pending"
    /\ last.res = "Ok"

\* C15: a successful process_claim on a Pending claim, when approved, takes
\* the claim amount from the pool balance, adds it to total_payouts, sets the
\* claim to Paid and moves the amount from the contract to the claimant; when
\* not approved it sets the claim to Rejected and leaves balance, total_payouts
\* and the token ledger as they were; in both cases pending_claims_count goes
\* down by exactly one.
C15_ProcessClaimEffect ==
    ProcessedOk =>
        LET c == last.args[1]
            pool == pools[TokenAddress]
        IN  /\ last.args[2] =>
                  /\ pool.balance = PrePool.balance - PreClaim.amount
                  /\ pool.total_payouts = PrePool.total_payouts + PreClaim.amount
                  /\ claims[c].status = "Paid"
                  /\ token_balance[PreClaim.claimant] =
                        pre.token_balance[PreClaim.claimant] + PreClaim.amount
                  /\ token_balance[ContractAddress] =
                        pre.token_balance[ContractAddress] - PreClaim.amount
            /\ ~last.args[2] =>
                  /\ pool.balance = PrePool.balance
                  /\ pool.total_payouts = PrePool.total_payouts
                  /\ claims[c].status = "Rejected"
                  /\ token_balance = pre.token_balance
            /\ pool.pending_claims_count # U32Max
            /\ U32Inc(pool.pending_claims_count) = PrePool.pending_claims_count

\* C16: verify_claim on a stored claim returns TRUE exactly when the claim's
\* defaulter has no contribution recorded for the claim's group and cycle; on
\* an unknown claim id it fails with InvalidClaim; it never changes the state.
C16_VerifyClaim ==
    last.op = "verify_claim" =>
        /\ StorageUnchanged
        /\ IF last.args[1] \in DOMAIN pre.claims
           THEN /\ last.res = "Ok"
                /\ last.ret = TRUE <=>
                      << PreClaim.group_id, PreClaim.cycle, PreClaim.defaulter >>
                          \notin pre.contributions
           ELSE last.res = "InvalidClaim"

\* verify_claim returned FALSE for a claim against a member that had
\* contributed in the claim's cycle.
C16_Witness ==
    /\ LastOnClaim("verify_claim")
    /\ last.res = "Ok"
    /\ last.ret = FALSE
    /\ << PreClaim.group_id, PreClaim.cycle, PreClaim.defaulter >> \in contributions

\* C17: at most one claim for a given (group, cycle, defaulter) is ever Paid.
C17_NoDuplicatePayout ==
    \A c \in DOMAIN claims, d \in DOMAIN claims :
        ( /\ claims[c].status = "Paid"
          /\ claims[d].status = "Paid"
          /\ claims[c].group_id = claims[d].group_id
          /\ claims[c].cycle = claims[d].cycle
          /\ claims[c].defaulter = claims[d].defaulter ) => c = d

(***************************************************************************)
(* The pause (Spec).                                                       *)
(***************************************************************************)
\* The last call was a state-mutating operation on a paused contract.
PausedCall ==
    /\ last.op \in { "create_group", "join_group", "contribute", "execute_payout" }
    /\ pre.paused

\* Groups, contribution records and payout records are as before the call.
RecordsUnchanged ==
    /\ groups = pre.groups
    /\ group_state = pre.group_state
    /\ contributions = pre.contributions
    /\ contribution_events = pre.contribution_events
    /\ payout_received = pre.payout_received
    /\ payout_events = pre.payout_events

\* C18: while the contract is paused every create_group, join_group,
\* contribute and execute_payout, whatever its arguments, fails with
\* ContractPaused and leaves the groups, the contribution records and the
\* payout records unchanged.
C18_PausedBlocksAll ==
    PausedCall => (last.res = "ContractPaused" /\ RecordsUnchanged)

(***************************************************************************)
(* Failing calls (InsuranceSpec).                                          *)
(***************************************************************************)
\* The last call was one of the operations that report errors, and it did not
\* succeed (it returned an error, or the invocation was aborted).
FailedCall ==
    /\ last.op \in { "create_group", "join_group", "contribute", "execute_payout",
                     "process_claim", "auto_process_claim" }
    /\ last.res # "Ok"

\* C19: a create_group, join_group, contribute, execute_payout, process_claim
\* or auto_process_claim that returns an error leaves the whole stored state
\* as it was: groups, contribution and payout records, claims, pools, the id
\* counters and the token ledger.
C19_FailedCallsChangeNothing ==
    FailedCall => StorageUnchanged

\* process_claim failed with InsufficientPoolBalance while a second claim was
\* pending and the pool held tokens.
C19_Witness ==
    /\ FailedCall
    /\ last.op = "process_claim"
    /\ last.res = "InsufficientPoolBalance"
    /\ DOMAIN claims = { 1, 2 }
    /\ PrePool.balance > 0
    /\ StorageUnchanged

(***************************************************************************)
(* Isolation of groups (IsolationSpec).                                    *)
(***************************************************************************)
\* The contribution and payout records of group g in a snapshot or state.
RecordsOf(g, contribs, events, received, payouts) ==
    << { r \in contribs : r[1] = g },
       { r \in BagToSet(events) : r[1] = g },
       { r \in received : r[1] = g },
       payouts[g] >>

\* C20: a join_group, contribute or execute_payout on group g leaves every
\* other group (members, current_cycle, payout_index, completion) and every
\* other group's contribution and payout records unchanged, also when one
\* address is a member of both groups.
C20_GroupsIsolated ==
    last.op \in { "join_group", "contribute", "execute_payout" } =>
        \A h \in DOMAIN pre.groups \ { last.gid } :
            /\ h \in DOMAIN groups
            /\ groups[h] = pre.groups[h]
            /\ group_state[h] = pre.group_state[h]
            /\ RecordsOf(h, contributions, contribution_events, payout_received,
                         payout_events)
                 = RecordsOf(h, pre.contributions, pre.contribution_events,
                             pre.payout_received, pre.payout_events)

\* a1, a member of both groups, contributed to group 2 while group 1, with
\* both its members paid up, had made its first payout.
C20_Witness ==
    /\ last.op = "contribute" /\ last.gid = 2 /\ last.who = "a1" /\ last.res = "Ok"
    /\ DOMAIN groups = { 1, 2 }
    /\ "a1" \in MemberSet(groups[1]) /\ "a1" \in MemberSet(groups[2])
    /\ Len(groups[1].members) = 2
    /\ groups[1].payout_index = 1
    /\ << 1, 1, "a1" >> \in contributions
(***************************************************************************)
(* Late contributions (LatenessSpec).                                      *)
(***************************************************************************)
\* The last call was contribute by a member of an Active, unpaused group
\* who had not contributed to the group's current cycle.
MemberContributed ==
    /\ LastOn("contribute")
    /\ ~pre.paused
    /\ pre.group_state[last.gid] = "Active"
    /\ ~PreGroup.is_complete
    /\ last.who \in MemberSet(PreGroup)
    /\ << PreGroup.id, PreGroup.current_cycle, last.who >> \notin pre.contributions

\* The contribution of the last call was accepted and recorded.
ContributionRecorded ==
    /\ last.res = "Ok"
    /\ contributions = pre.contributions
                         \cup { << PreGroup.id, PreGroup.current_cycle, last.who >> }

\* C21: a member's contribute at time now is accepted up to the end of the
\* cycle, accepted as late up to the end of the grace period, and after the
\* end of the grace period rejected with no contribution recorded.
C21_LatenessWindow ==
    MemberContributed =>
        /\ pre.now <= grace_period_end_time(PreGroup) => ContributionRecorded
        /\ pre.now > grace_period_end_time(PreGroup) =>
               /\ last.res # "Ok"
               /\ contributions = pre.contributions

(***************************************************************************)
(* Insurance premium of a contribution (InsuranceSpec).                    *)
(***************************************************************************)
\* The insurance pool of the token of the last call's group, before and
\* after the call.
PreTokenPool ==
    IF token_address(PreGroup) \in DOMAIN pre.pools
    THEN pre.pools[token_address(PreGroup)] ELSE empty_pool

TokenPool == get_insurance_pool_or_default(token_address(PreGroup))

\* C22: a successful contribute to a group with insurance enabled adds
\* contribution_amount * rate_bps / 10000 to the balance of the insurance
\* pool of the group's token; with insurance disabled it changes no pool.
C22_InsuranceSkim ==
    (LastOn("contribute") /\ last.res = "Ok") =>
        IF insurance_config(PreGroup).is_enabled
        THEN TokenPool.balance = PreTokenPool.balance
                 + calculate_premium(PreGroup.contribution_amount,
                                     insurance_config(PreGroup).rate_bps)
        ELSE pools = pre.pools

(***************************************************************************)
(* Refund votes (RefundVoteSpec).                                          *)
(***************************************************************************)
\* The voters of group g with a stored vote for (TRUE) or against (FALSE).
VotersOf(g, in_favor) == { v \in Address : << g, v, in_favor >> \in refund_votes }

\* The request and the votes are as they were when the last call started.
VotesUnchanged ==
    /\ refund_requests = pre.refund_requests
    /\ refund_votes = pre.refund_votes

\* The caller of the last call had a vote stored for the group.
PreHasVoted ==
    \E in_favor \in BOOLEAN : << last.gid, last.who, in_favor >> \in pre.refund_votes

\* C23: each member casts at most one vote, for or against, per request: a
\* second vote by the same member is rejected and changes neither
\* votes_for nor votes_against, a non-member's vote is rejected, and
\* votes_for + votes_against never exceeds the number of members.
C23_OneVotePerMember ==
    /\ \A g \in DOMAIN refund_requests :
          /\ VotersOf(g, TRUE) \cap VotersOf(g, FALSE) = {}
          /\ VotersOf(g, TRUE) \cup VotersOf(g, FALSE) \subseteq MemberSet(groups[g])
          /\ refund_requests[g].votes_for = Cardinality(VotersOf(g, TRUE))
          /\ refund_requests[g].votes_against = Cardinality(VotersOf(g, FALSE))
          /\ refund_requests[g].votes_for + refund_requests[g].votes_against
                <= Len(groups[g].members)
    /\ (LastOn("vote_refund") /\ (PreHasVoted \/ last.who \notin MemberSet(PreGroup))) =>
          /\ last.res # "Ok"
          /\ VotesUnchanged

\* a2, who voted against, votes again, now for, after a1 voted for: the
\* second vote is rejected and the counts stay one for, one against.
C23_Witness ==
    /\ LastOn("vote_refund") /\ last.who = "a2" /\ last.args = << TRUE >>
    /\ PreHasVoted
    /\ last.res = "AlreadyVoted"
    /\ refund_requests[1].votes_for = 1
    /\ refund_requests[1].votes_against = 1
    /\ << 1, "a2", FALSE >> \in refund_votes

\* The refund request of the last call's group, when the call started.
PreRequest == pre.refund_requests[last.gid]

\* The last call was on a group whose request was already resolved.
PreResolved ==
    /\ last.gid \in DOMAIN pre.refund_requests
    /\ PreRequest.executed

\* C24: a request is resolved only after its deadline, created_at + 604800,
\* or once every member has voted; it is approved exactly if
\* votes_for * 100 >= 51 * (votes_for + votes_against); approved, the group
\* becomes Cancelled, and otherwise it stays Active; the request is marked
\* executed, and a resolved request takes no further vote or resolution.
C24_RefundResolution ==
    /\ (LastOn("execute_refund") /\ last.res = "Ok") =>
          /\ last.gid \in DOMAIN pre.refund_requests
          /\ ~PreRequest.executed
          /\ PreRequest.voting_deadline = PreRequest.created_at + 604800
          /\ \/ pre.now > PreRequest.voting_deadline
             \/ PreRequest.votes_for + PreRequest.votes_against
                    = Len(PreGroup.members)
          /\ refund_requests[last.gid].executed
          /\ refund_requests[last.gid].approved
                <=> (PreRequest.votes_for * 100
                        >= 51 * (PreRequest.votes_for + PreRequest.votes_against))
          /\ pre.group_state[last.gid] = "Active"
          /\ group_state[last.gid] =
                IF refund_requests[last.gid].approved THEN "Cancelled" ELSE "Active"
    /\ (last.op \in { "vote_refund", "execute_refund" } /\ PreResolved) =>
          /\ last.res # "Ok"
          /\ VotesUnchanged
          /\ group_state = pre.group_state
    /\ \A g \in DOMAIN refund_requests :
          refund_requests[g].approved => /\ refund_requests[g].executed
                                         /\ group_state[g] = "Cancelled"

\* Three members, two voted for and one against: every member has voted,
\* the request is resolved before its deadline, approved with 66%, and the
\* group is Cancelled.
C24_Witness ==
    /\ LastOn("execute_refund") /\ last.res = "Ok"
    /\ Len(PreGroup.members) = 3
    /\ PreRequest.votes_for = 2 /\ PreRequest.votes_against = 1
    /\ pre.now <= PreRequest.voting_deadline
    /\ refund_requests[1].executed /\ refund_requests[1].approved
    /\ group_state[1] = "Cancelled"

(***************************************************************************)
(* Token shortfall (Spec).                                                 *)
(***************************************************************************)
\* The last call was execute_payout on an Active, unpaused group all of
\* whose members had contributed to its current cycle.
PayoutDue ==
    /\ LastOn("execute_payout")
    /\ ~pre.paused
    /\ pre.group_state[last.gid] = "Active"
    /\ ~PreGroup.is_complete
    /\ ~PreSomeMemberLacks

\* C25: contribute by a member who holds less than the amount due fails with
\* InsufficientBalance and records no contribution; execute_payout while the
\* contract holds less than the payout fails with
\* InsufficientContractBalance and leaves the group and the payout records
\* as they were.
C25_TokenShortfall ==
    /\ (MemberContributed
          /\ pre.token_balance[last.who] < PreGroup.contribution_amount) =>
          /\ last.res = "InsufficientBalance"
          /\ contributions = pre.contributions
    /\ (PayoutDue
          /\ pre.token_balance[ContractAddress]
                < PreGroup.contribution_amount * Len(PreGroup.members)) =>
          /\ last.res = "InsufficientContractBalance"
          /\ groups = pre.groups
          /\ payout_received = pre.payout_received
          /\ payout_events = pre.payout_events

(***************************************************************************)
(* Queries (QuerySpec).                                                    *)
(***************************************************************************)
QueryOps == { "get_group", "list_members", "is_member", "get_contribution_status",
              "get_group_status", "is_complete" }

\* The members of the last call's group without a contribution flag for its
\* current cycle when the call started, in member order.
PrePending ==
    LET lacks(member) ==
            << PreGroup.id, PreGroup.current_cycle, member >> \notin pre.contributions
    IN  SelectSeq(PreGroup.members, lacks)

\* What the query of the last call returns for the stored group, whatever
\* the pause flag.
QueryAnswer ==
    CASE last.op = "get_group" -> last.ret = PreGroup
      [] last.op = "list_members" -> last.ret = PreGroup.members
      [] last.op = "is_member" -> last.ret = (last.who \in MemberSet(PreGroup))
      [] last.op = "is_complete" -> last.ret = PreGroup.is_complete
      [] last.op = "get_contribution_status" ->
            /\ Len(last.ret) = Len(PreGroup.members)
            /\ \A i \in 1..Len(last.ret) :
                  /\ last.ret[i][1] = PreGroup.members[i]
                  /\ last.ret[i][2] =
                        (<< last.gid, last.args[1], PreGroup.members[i] >>
                            \in pre.contributions)
      [] last.op = "get_group_status" ->
            /\ last.ret.group_id = last.gid
            /\ last.ret.current_cycle = PreGroup.current_cycle
            /\ last.ret.is_complete = PreGroup.is_complete
            /\ last.ret.has_next_recipient = ~PreGroup.is_complete
            /\ last.ret.total_members = Len(PreGroup.members)
            /\ last.ret.pending_contributors = PrePending
            /\ last.ret.contributions_received
                  = Len(PreGroup.members) - Len(PrePending)
            /\ last.ret.cycle_end_time
                  = PreGroup.cycle_start_time + PreGroup.cycle_duration
            /\ last.ret.is_cycle_active = (pre.now < last.ret.cycle_end_time)
            /\ last.ret.current_time = pre.now

\* C26: the six queries never change any stored state, and what they return
\* is determined by the stored groups and contributions, the same whether or
\* not the contract is paused: GroupNotFound for an unknown group and the
\* group's data otherwise.
C26_QueriesReadOnly ==
    last.op \in QueryOps =>
        /\ StorageUnchanged
        /\ now = pre.now
        /\ IF last.gid \in DOMAIN pre.groups
           THEN last.res = "Ok" /\ QueryAnswer
           ELSE last.res = "GroupNotFound"

\* On a paused contract get_group_status answers for a group in its second
\* cycle with one contribution pending.
C26_Witness ==
    /\ last.op = "get_group_status" /\ last.res = "Ok"
    /\ pre.paused /\ paused
    /\ last.ret.current_cycle = 2
    /\ last.ret.pending_contributors = << "a2" >>
    /\ last.ret.next_recipient = "a2"

(***************************************************************************)
(* Liveness of the rotation (RotationSpec).                                *)
(***************************************************************************)
\* Group 1 is Complete after as many payouts as it has members.
RotationDone ==
    /\ 1 \in DOMAIN groups
    /\ groups[1].is_complete
    /\ groups[1].payout_index = Len(groups[1].members)
    /\ Len(payout_events[1]) = Len(groups[1].members)

\* C27: on an unpaused contract, with every member contributing in each
\* cycle and execute_payout called again and again, an Active group
\* eventually is Complete, after as many payouts as it finally has members.
C27_RotationCompletes == (1 \in DOMAIN groups) ~> RotationDone

\* The group of a1, a2 and a3 is Complete after three payouts.
C27_Witness ==
    /\ RotationDone
    /\ Len(groups[1].members) = 3
    /\ last.op = "execute_payout" /\ last.res = "Ok"

(***************************************************************************)
(* Validation of the group parameters (ValidationSpec).                    *)
(***************************************************************************)
\* What the claim says validate_group_params returns for the parameters of
\* the last call, with an amount <<hi, lo>> that stands for hi * 10^8 + lo.
ClaimedValidation ==
    LET amount == last.args[1]
        duration == last.args[2]
        max_members == last.args[3]
    IN  IF amount[1] = 0 /\ amount[2] = 0 THEN "ContributionAmountZero"
        ELSE IF amount[1] < 0 THEN "ContributionAmountNegative"
        ELSE IF amount[1] = 0 /\ amount[2] < 100000 THEN "ContributionAmountZero"
        ELSE IF amount[1] > 100000000 \/ (amount[1] = 100000000 /\ amount[2] > 0)
        THEN "ContributionAmountNegative"
        ELSE IF duration = 0 \/ duration < 3600 \/ duration > 31536000
        THEN "CycleDurationZero"
        ELSE IF max_members < 2 THEN "MaxMembersBelowMinimum"
        ELSE IF max_members > 100 THEN "MaxMembersAboveLimit"
        ELSE "Ok"

C29_InitializeOnce ==
    /\ last.op = "initialize" =>
          IF pre.admin = NoAddress
          THEN last.res = "Ok" /\ admin = last.who
          ELSE /\ last.res = "AlreadyInitialized"
               /\ admin = pre.admin
               /\ StorageUnchanged
    /\ pre.admin # NoAddress => admin = pre.admin
    /\ last.op # "initialize" => admin = pre.admin

\* a1 calls initialize on the contract the admin initialized and paused.
C29_Witness ==
    /\ last.op = "initialize" /\ last.who = "a1"
    /\ last.res = "AlreadyInitialized"
    /\ pre.admin = AdminAddress /\ admin = AdminAddress
    /\ paused

(***************************************************************************)
(* Penalty records (LatenessSpec).                                         *)
(***************************************************************************)
\* The MemberPenaltyRecord of (group, member) in `records`; a member without
\* a stored record has made no contribution and has score 100.
PenaltyRecord(records, group_id, member) ==
    IF << group_id, member >> \in DOMAIN records
    THEN records[<< group_id, member >>]
    ELSE [ late_count |-> 0, on_time_count |-> 0, total_penalties |-> 0,
           reliability_score |-> 100 ]

\* The score the counts of a record give.
ScoreOf(record) ==
    IF record.on_time_count + record.late_count = 0 THEN 100
    ELSE (record.on_time_count * 100) \div (record.on_time_count + record.late_count)

\* C30: every member's penalty record has reliability_score =
\* on_time_count * 100 / (on_time_count + late_count), 100 with both counts
\* zero, hence between 0 and 100; each accepted contribution adds one to
\* exactly one of on_time_count and late_count; and no contribute or
\* execute_payout is rejected because of the score.
C30_ReliabilityScore ==
    /\ \A g \in DOMAIN groups : \A m \in MemberSet(groups[g]) :
          LET record == PenaltyRecord(penalty_records, g, m)
          IN  /\ record.reliability_score = ScoreOf(record)
              /\ record.reliability_score >= 0 /\ record.reliability_score <= 100
    /\ (LastOn("contribute") /\ last.res = "Ok") =>
          LET before == PenaltyRecord(pre.penalty_records, last.gid, last.who)
              after == PenaltyRecord(penalty_records, last.gid, last.who)
          IN  \/ /\ after.on_time_count = before.on_time_count + 1
                 /\ after.late_count = before.late_count
              \/ /\ after.late_count = before.late_count + 1
                 /\ after.on_time_count = before.on_time_count
    /\ (MemberContributed /\ pre.now <= grace_period_end_time(PreGroup)) =>
          last.res = "Ok"
    /\ PayoutDue => last.res = "Ok"

\* C31: file_claim for a group id that does not exist fails with
\* GroupNotFound and has no effect: no claim is stored, the claim id counter
\* is not advanced, and no pool is created or changed.
C31_FileClaimMissingGroup ==
    (last.op = "file_claim" /\ last.gid \notin DOMAIN pre.groups) =>
        /\ last.res = "GroupNotFound"
        /\ claims = pre.claims
        /\ next_claim_id = pre.next_claim_id
        /\ pools = pre.pools

\* The last call was a successful execute_payout.
PaidOut == LastOn("execute_payout") /\ last.res = "Ok"

C32_WitnessComplete ==
    /\ PaidOut
    /\ groups[last.gid].is_complete
    /\ pre.now > PreGroup.cycle_start_time

\* C33: contribute on a contract that is not paused returns the first error
\* that applies in the order GroupNotFound, GroupComplete, NotMember,
\* AlreadyContributed, and succeeds when none does; so a call on an unknown
\* group id fails with GroupNotFound, and no address outside a group's member
\* list ever has a contribution record for that group.
C33_ContributeErrorOrder ==
    /\ (last.op = "contribute" /\ ~pre.paused) =>
          last.res =
             IF last.gid \notin DOMAIN pre.groups THEN "GroupNotFound"
             ELSE IF PreGroup.is_complete THEN "GroupComplete"
             ELSE IF last.who \notin MemberSet(PreGroup) THEN "NotMember"
             ELSE IF << last.gid, PreGroup.current_cycle, last.who >> \in pre.contributions
             THEN "AlreadyContributed"
             ELSE "Ok"
    /\ \A record \in contributions :
          /\ record[1] \in DOMAIN groups
          /\ record[3] \in MemberSet(groups[record[1]])

\* An address outside the member list called contribute on a completed group
\* in which a member holds a contribution record.
C33_Witness ==
    /\ LastOn("contribute")
    /\ ~pre.paused
    /\ PreGroup.is_complete
    /\ last.who \notin MemberSet(PreGroup)
    /\ \E record \in contributions : record[1] = last.gid

\* The last call was a get_group_status that returned a status.
StatusReturned == LastOn("get_group_status") /\ last.res = "Ok"

\* What get_group_status says about the cycle's timing, its pending
\* contributors and the next recipient.
StatusTimingAndRecipient ==
    /\ last.ret.cycle_end_time = PreGroup.cycle_start_time + PreGroup.cycle_duration
    /\ last.ret.is_cycle_active = (pre.now < last.ret.cycle_end_time)
    /\ last.ret.pending_contributors = PrePending
    /\ last.ret.contributions_received + Len(PrePending) = last.ret.total_members
    /\ last.ret.total_members = Len(PreGroup.members)
    /\ last.ret.has_next_recipient = ~PreGroup.is_complete
    /\ last.ret.has_next_recipient =>
          /\ PreGroup.payout_index < Len(PreGroup.members)
          /\ last.ret.next_recipient = PreGroup.members[PreGroup.payout_index + 1]

C34_StatusWithoutGracePeriod == StatusReturned => StatusTimingAndRecipient

\* The error process_claim(claim_id, approved) returns for the claim of the
\* last call in the state the call started from; "Ok" when it returns none.
PreProcessError(approved) ==
    IF PreClaim.status # "Pending" THEN "ClaimAlreadyProcessed"
    ELSE IF PreClaim.group_id \notin DOMAIN pre.groups THEN "GroupNotFound"
    ELSE IF TokenAddress \notin DOMAIN pre.pools THEN "PoolNotFound"
    ELSE IF approved /\ PrePool.balance < PreClaim.amount THEN "InsufficientPoolBalance"
    ELSE "Ok"

\* The last call ended as process_claim(claim_id, approved) ends from the
\* state it started in: with the same error and nothing written, or with the
\* claim settled and the pool and the token balances updated.
ProcessOutcome(approved) ==
    LET claim_id == last.args[1]
        error == PreProcessError(approved)
        trapped == last.res = "Panic" /\ StorageUnchanged
    IN  IF error # "Ok" THEN last.res = error /\ StorageUnchanged
        ELSE IF approved /\ ( \/ PreClaim.amount < 0
                              \/ pre.token_balance[ContractAddress] < PreClaim.amount )
        THEN trapped
        ELSE \/ trapped /\ PrePool.pending_claims_count = U32Zero
             \/ /\ last.res = "Ok"
                /\ claims = [pre.claims EXCEPT ![claim_id].status =
                                IF approved THEN "Paid" ELSE "Rejected"]
                /\ pools[TokenAddress].balance =
                      PrePool.balance - (IF approved THEN PreClaim.amount ELSE 0)
                /\ pools[TokenAddress].total_payouts =
                      PrePool.total_payouts + (IF approved THEN PreClaim.amount ELSE 0)
                /\ pools[TokenAddress].pending_claims_count =
                      U32Dec(PrePool.pending_claims_count)
                /\ token_balance[PreClaim.claimant] =
                      pre.token_balance[PreClaim.claimant]
                         + (IF approved THEN PreClaim.amount ELSE 0)

\* C35: auto_process_claim(claim_id) ends as process_claim(claim_id, v) ends,
\* v being what verify_claim(claim_id) returns: it fails with InvalidClaim for
\* an unknown claim, otherwise it fails with the error process_claim gives and
\* writes nothing, or it leaves the claim Paid when the defaulter has no
\* contribution record for the claim's group and cycle and Rejected when it
\* has one, with the pool and the balances as process_claim leaves them.
C35_AutoProcessEquivalence ==
    /\ (last.op = "auto_process_claim" /\ last.args[1] \notin DOMAIN pre.claims) =>
          last.res = "InvalidClaim" /\ StorageUnchanged
    /\ LastOnClaim("auto_process_claim") =>
          ProcessOutcome(<< PreClaim.group_id, PreClaim.cycle, PreClaim.defaulter >>
                            \notin pre.contributions)
    /\ LastOnClaim("process_claim") => ProcessOutcome(last.args[2])

\* auto_process_claim rejected a claim against a member that had contributed
\* in the claim's cycle.
C35_Witness ==
    /\ LastOnClaim("auto_process_claim")
    /\ last.res = "Ok"
    /\ << PreClaim.group_id, PreClaim.cycle, PreClaim.defaulter >> \in pre.contributions
    /\ claims[last.args[1]].status = "Rejected"

\* auto_process_claim paid a claim against a member that had not contributed.
C35_WitnessPaid ==
    /\ LastOnClaim("auto_process_claim")
    /\ last.res = "Ok"
    /\ claims[last.args[1]].status = "Paid"

Collected(g, c) ==
    groups[g].contribution_amount
        * Cardinality({ member \in Address : << g, c, member >> \in contributions })

\* The sum of the amounts of the payouts of group g recorded for cycle c.
RECURSIVE PaidFrom(_, _, _)
PaidFrom(g, c, i) ==
    IF i = 0 THEN 0
    ELSE PaidFrom(g, c, i - 1)
            + (IF payout_events[g][i].cycle = c THEN payout_events[g][i].amount ELSE 0)

PaidOutFor(g, c) == PaidFrom(g, c, Len(payout_events[g]))

PendingClaims ==
    { c \in DOMAIN claims :
        claims[c].status = "Pending" /\ claims[c].group_id \in DOMAIN groups }

PrePoolOrEmpty ==
    IF TokenAddress \in DOMAIN pre.pools THEN pre.pools[TokenAddress] ELSE empty_pool

PoolOrEmpty == get_insurance_pool_or_default(TokenAddress)

\* C39: after any deposit_to_pool, file_claim and process_claim calls with
\* any amounts, the pool of the token has balance >= 0 and total_payouts >= 0,
\* total_payouts never decreases, and balance + total_payouts is the sum of
\* the amounts deposited: a deposit adds its amount to it, and file_claim and
\* process_claim leave it as it was.
C39_PoolAccounting ==
    /\ PoolOrEmpty.balance >= 0
    /\ PoolOrEmpty.total_payouts >= 0
    /\ PoolOrEmpty.total_payouts >= PrePoolOrEmpty.total_payouts
    /\ PoolOrEmpty.balance + PoolOrEmpty.total_payouts =
          PrePoolOrEmpty.balance + PrePoolOrEmpty.total_payouts
             + (IF last.op = "deposit_to_pool" THEN last.args[2] ELSE 0)

\* Only the sign of the balance is lost: the other parts of C39 hold.
C39_ExceptBalanceSign ==
    /\ PoolOrEmpty.total_payouts >= 0
    /\ PoolOrEmpty.total_payouts >= PrePoolOrEmpty.total_payouts
    /\ PoolOrEmpty.balance + PoolOrEmpty.total_payouts =
          PrePoolOrEmpty.balance + PrePoolOrEmpty.total_payouts
             + (IF last.op = "deposit_to_pool" THEN last.args[2] ELSE 0)

\* What member m has contributed to group g: one contribution amount for
\* every cycle it has a contribution record for.
Contributed(g, m) ==
    groups[g].contribution_amount
        * Cardinality({ c \in 1..groups[g].current_cycle : << g, c, m >> \in contributions })

\* The sum of the payouts of group g recorded for member m.
RECURSIVE ReceivedFrom(_, _, _)
ReceivedFrom(g, m, i) ==
    IF i = 0 THEN 0
    ELSE ReceivedFrom(g, m, i - 1)
            + (IF payout_events[g][i].recipient = m THEN payout_events[g][i].amount ELSE 0)

Received(g, m) == ReceivedFrom(g, m, Len(payout_events[g]))

\* C40: whatever the order of join_group, contribute and execute_payout,
\* joins after the first payout included, once a group is complete every
\* member has a contribution record for every cycle of the rotation and has
\* received exactly what it contributed.
C40_RotationFairness ==
    \A g \in DOMAIN groups :
        groups[g].is_complete =>
            \A m \in MemberSet(groups[g]) :
                /\ \A c \in 1..groups[g].current_cycle : << g, c, m >> \in contributions
                /\ Received(g, m) = Contributed(g, m)

\* A rotation whose members all joined before the first payout is fair.
C40_JoinsBeforeFirstPayout ==
    \A g \in DOMAIN groups :
        ( /\ groups[g].is_complete
          /\ \A m \in MemberSet(groups[g]) : << g, 1, m >> \in contributions ) =>
            \A m \in MemberSet(groups[g]) : Received(g, m) = Contributed(g, m)

====
